---- MODULE Spec2Model ----
(***************************************************************************)
(* Nurthure Monitor: the connection poller (ConnectionManager), the alert  *)
(* engine (AlertsManager) and the alert part of the store (StorageManager).*)
(*                                                                         *)
(* JavaScript runs one handler at a time; a handler runs to its next       *)
(* await.  Every action below is one such run-to-completion step.          *)
(***************************************************************************)
EXTENDS Integers, Sequences, FiniteSets, TLC

\* ---------------------------------------------------------------- bounds
\* Number of poll chains that may be alive at once (each start() adds one).
MaxLoops == 3
\* Cap on consecutive fetch failures (currentRetries grows without bound).
MaxFails == 3

\* Number of checkReading calls, of clock advances and of setThreshold calls.
MaxChecks == 3
MaxTicks == 3
MaxSets == 1
\* Date.now() when the page is loaded (epoch milliseconds, far above the
\* cooldown in every real run).
StartTime == 100000

\* Number of save calls made on the store, and the ceilings maxReadings and
\* maxAlerts a store under test is configured with.
MaxSaves == 4
\* Number of getChartData calls, and of page reloads.
MaxCharts == 3
\* Number of readings written while charts are requested, and length of the
\* series a chart is downsampled from.
MaxTrendSaves == 2
MaxSeries == 5
MaxRestarts == 1
\* Number of 'data' events emitted to the listener.
MaxData == 3
\* Number of setThreshold calls made from the settings page.
MaxConfigs == 2
CeilingReadings == 2
CeilingAlerts == 2

\* ------------------------------------------------------------- constants
Loops == 1..MaxLoops
Addresses == {"192.168.4.1", "10.0.0.7"}
Messages == {"HTTP 500", "Failed to fetch"}
\* this.pollTimer = null
NoTimer == 0

VARIABLES
    \* ConnectionManager fields
    isConnected, currentRetries, pollTimer, piAddress,
    \* the poll chains: loop[l].st is "idle" (no chain in slot l), "fetch"
    \* (poll() awaits fetchReadings()) or "timer" (setTimeout pending);
    \* addr is the address the request went to, old is TRUE when configure()
    \* was called while the request was in flight
    loop,
    \* events emitted to the listeners by the last step, in order
    emitted,
    \* observation of the run: the last operation, the chain it ran in, the
    \* message of the last failure, whether the completed fetch was old,
    \* stop() called with no start()/configure() since, number of consecutive
    \* failures since the last success, a success has happened, no success
    \* since the last start()/configure()/failure
    lastOp, lastLoop, lastMsg, lastOld, stopped, failStreak, hadOk, fresh

pollerVars == <<isConnected, currentRetries, pollTimer, piAddress, loop,
                emitted, lastOp, lastLoop, lastMsg, lastOld, stopped,
                failStreak, hadOk, fresh>>

VARIABLES
    \* AlertsManager fields
    thresholds, lastAlerts,
    \* Date.now()
    now,
    \* storageManager.db is set (init() succeeded)
    dbOpen,
    \* triggerAlert calls suspended at await saveAlert(alert), oldest first
    pendingSaves,
    \* the alerts object store and its autoIncrement key generator
    alertStore, nextAlertId,
    \* saveSetting('thresholds', ..) requests not yet settled, and the value
    \* of the 'thresholds' record of the settings store (<<>> when absent)
    pendingSettings, savedThresholds,
    \* alerts emitted on the 'alert' event, in order
    alertEvents,
    \* the argument and the return value of the last checkReading call
    reading, alerts,
    \* observation of the run: every evaluated condition with its time and
    \* whether it was triggered, the alerts whose saveAlert rejected, the last
    \* operation, and the numbers of calls made
    evalLog, rejected, lastAlertOp, checks, ticks, sets,
    \* StorageManager.maxAlerts and the cleanupOldAlerts calls not yet run
    maxAlerts, cleanups

alertVars == <<thresholds, lastAlerts, now, dbOpen, pendingSaves, alertStore,
               nextAlertId, pendingSettings, savedThresholds, alertEvents,
               reading, alerts, evalLog, rejected, lastAlertOp, checks, ticks,
               sets, maxAlerts, cleanups>>

VARIABLES
    \* the readings object store, its autoIncrement key generator,
    \* StorageManager.maxReadings and the cleanupOldReadings calls not yet run
    readingStore, nextReadingId, maxReadings, readingCleanups,
    \* the arguments and the settled value of the last store request
    query, result,
    \* observation of the run: the last store operation and the number of
    \* save calls made
    lastStoreOp, saves

storeVars == <<readingStore, nextReadingId, maxReadings, readingCleanups,
               query, result, lastStoreOp, saves>>

VARIABLES
    \* TrendsManager.cachedData and lastCacheTime, by cache key
    cachedData, lastCacheTime,
    \* the getChartData calls suspended at await getReadingsLastHours(hours)
    pendingCharts,
    \* the value the last getChartData call returned
    chartResult,
    \* the value the last downsample call returned
    displayData,
    \* observation of the run: the getChartData calls answered, and their
    \* number
    served, charts

trendVars == <<cachedData, lastCacheTime, pendingCharts, chartResult,
               displayData, served, charts>>

VARIABLES
    \* the number of page loads after the first, and the length of evalLog
    \* when the current page was loaded
    session, sessionStart

sessionVars == <<session, sessionStart>>

VARIABLES
    \* the body fetchReadings() got from response.json() and what
    \* normalizeReading(data) made of it (<<>> before the call)
    payload, normalized,
    \* appState.lastReading, and the 'data' listeners suspended at
    \* await saveReading(reading), in the order of their add requests
    lastReading, pendingReadings,
    \* observation of the run: the number of 'data' events emitted, and the
    \* events in the order their readings were stored and were checked
    dataEvents, storedLog, checkedLog

pipelineVars == <<payload, normalized, lastReading, pendingReadings,
                  dataEvents, storedLog, checkedLog>>

vars == <<pollerVars, alertVars, storeVars, trendVars, sessionVars,
          pipelineVars>>

Idle == [st |-> "idle", addr |-> "", old |-> FALSE]
Timer == [st |-> "timer", addr |-> "", old |-> FALSE]

timers(lp) == {l \in Loops : lp[l].st = "timer"}
fetches(lp) == {l \in Loops : lp[l].st = "fetch"}
FreeLoops(lp) == {l \in Loops : lp[l].st = "idle"}
Min(S) == CHOOSE x \in S : \A y \in S : x <= y

\* ---------------------------------------------------- ConnectionManager
\* constructor
PollerInit ==
    /\ isConnected = FALSE
    /\ currentRetries = 0
    /\ pollTimer = NoTimer
    /\ piAddress = "192.168.4.1"
    /\ loop = [l \in Loops |-> Idle]
    /\ emitted = <<>>
    /\ lastOp = "init" /\ lastLoop = 0 /\ lastMsg = "" /\ lastOld = FALSE
    /\ stopped = FALSE /\ failStreak = 0 /\ hadOk = FALSE /\ fresh = TRUE

\* poll() up to its await: fetchReadings() issues the request to this.url
poll(lp, l, addr) == [lp EXCEPT ![l] = [st |-> "fetch", addr |-> addr, old |-> FALSE]]

\* stop(): clearTimeout(pollTimer) cancels the timer only if it is pending
stop(pt, lp) ==
    [pollTimer |-> NoTimer,
     loop |-> IF pt # NoTimer /\ lp[pt].st = "timer"
              THEN [lp EXCEPT ![pt] = Idle] ELSE lp]

\* pollSuccess without the reset of the retry counter
pollSuccess_noReset(conn, retries, addr) ==
    [isConnected |-> TRUE,
     currentRetries |-> retries,
     events |-> (IF conn THEN <<>> ELSE <<[type |-> "connected", address |-> addr]>>)
                \o <<[type |-> "data"]>>]

\* pollSuccess that emits connected on every success
pollSuccess_alwaysAnnounce(conn, retries, addr) ==
    [isConnected |-> TRUE,
     currentRetries |-> IF conn THEN retries ELSE 0,
     events |-> <<[type |-> "connected", address |-> addr], [type |-> "data"]>>]

\* the try branch of poll() after the await
pollSuccess(conn, retries, addr) ==
    [isConnected |-> TRUE,
     currentRetries |-> IF conn THEN retries ELSE 0,
     events |-> (IF conn THEN <<>> ELSE <<[type |-> "connected", address |-> addr]>>)
                \o <<[type |-> "data"]>>]

\* handleError without the isConnected test
handleError_alwaysDisconnect(conn, retries, msg) ==
    [isConnected |-> FALSE,
     currentRetries |-> retries + 1,
     events |-> <<[type |-> "disconnected", error |-> msg],
                  [type |-> "error", message |-> msg, retries |-> retries + 1]>>]

\* handleError that leaves isConnected as it is
handleError_keepConnected(conn, retries, msg) ==
    [isConnected |-> conn,
     currentRetries |-> retries + 1,
     events |-> (IF conn THEN <<[type |-> "disconnected", error |-> msg]>> ELSE <<>>)
                \o <<[type |-> "error", message |-> msg, retries |-> retries + 1]>>]

\* handleError(error)
handleError(conn, retries, msg) ==
    [isConnected |-> FALSE,
     currentRetries |-> retries + 1,
     events |-> (IF conn THEN <<[type |-> "disconnected", error |-> msg]>> ELSE <<>>)
                \o <<[type |-> "error", message |-> msg, retries |-> retries + 1]>>]

\* the timer armed inside the try block only
rearm_onlyOnSuccess(lp, l, ok) == IF ok THEN [lp EXCEPT ![l] = Timer] ELSE [lp EXCEPT ![l] = Idle]

\* the last statement of poll(): pollTimer = setTimeout(poll, pollInterval),
\* whatever the outcome ok of the fetch was
rearm(lp, l, ok) == [lp EXCEPT ![l] = Timer]

\* start()
Start ==
    /\ UNCHANGED <<alertVars, storeVars, trendVars, sessionVars, pipelineVars>>
    /\ FreeLoops(loop) # {}
    /\ loop' = poll(loop, Min(FreeLoops(loop)), piAddress)
    /\ emitted' = <<>>
    /\ lastOp' = "start" /\ lastLoop' = Min(FreeLoops(loop))
    /\ stopped' = FALSE /\ fresh' = TRUE
    /\ UNCHANGED <<isConnected, currentRetries, pollTimer, piAddress,
                   lastMsg, lastOld, failStreak, hadOk>>

\* stop()
Stop ==
    /\ UNCHANGED <<alertVars, storeVars, trendVars, sessionVars, pipelineVars>>
    /\ pollTimer' = stop(pollTimer, loop).pollTimer
    /\ loop' = stop(pollTimer, loop).loop
    /\ emitted' = <<>>
    /\ lastOp' = "stop" /\ lastLoop' = 0
    /\ stopped' = TRUE
    /\ UNCHANGED <<isConnected, currentRetries, piAddress, lastMsg, lastOld,
                   failStreak, hadOk, fresh>>

\* configure(address, port, interval): stop() then start()
Configure(address) ==
    LET s == stop(pollTimer, loop)
        aged == [l \in Loops |-> IF s.loop[l].st = "fetch"
                                 THEN [s.loop[l] EXCEPT !.old = TRUE]
                                 ELSE s.loop[l]]
    IN  /\ UNCHANGED <<alertVars, storeVars, trendVars,
                       sessionVars, pipelineVars>>
        /\ FreeLoops(s.loop) # {}
        /\ piAddress' = address
        /\ pollTimer' = s.pollTimer
        /\ loop' = poll(aged, Min(FreeLoops(s.loop)), address)
        /\ emitted' = <<>>
        /\ lastOp' = "configure" /\ lastLoop' = Min(FreeLoops(s.loop))
        /\ stopped' = FALSE /\ fresh' = TRUE
        /\ UNCHANGED <<isConnected, currentRetries, lastMsg, lastOld,
                       failStreak, hadOk>>

\* the setTimeout callback: () => this.poll()
TimerFire(l) ==
    /\ UNCHANGED <<alertVars, storeVars, trendVars, sessionVars, pipelineVars>>
    /\ loop[l].st = "timer"
    /\ loop' = poll(loop, l, piAddress)
    /\ emitted' = <<>>
    /\ lastOp' = "fire" /\ lastLoop' = l
    /\ UNCHANGED <<isConnected, currentRetries, pollTimer, piAddress,
                   lastMsg, lastOld, stopped, failStreak, hadOk, fresh>>

\* poll() resumed with a reading
PollOk(l) ==
    LET r == pollSuccess(isConnected, currentRetries, piAddress)
    IN  /\ UNCHANGED <<alertVars, storeVars, trendVars,
                       sessionVars, pipelineVars>>
        /\ loop[l].st = "fetch"
        /\ isConnected' = r.isConnected
        /\ currentRetries' = r.currentRetries
        /\ emitted' = r.events
        /\ loop' = rearm(loop, l, TRUE)
        /\ pollTimer' = IF loop'[l].st = "timer" THEN l ELSE pollTimer
        /\ lastOp' = "ok" /\ lastLoop' = l /\ lastOld' = loop[l].old
        /\ failStreak' = 0 /\ hadOk' = TRUE /\ fresh' = FALSE
        /\ UNCHANGED <<piAddress, lastMsg, stopped>>

\* poll() resumed with fetchReadings() rejected: network error, abort after
\* the 5000 ms request timeout, or !response.ok
PollFail(l, msg) ==
    LET r == handleError(isConnected, currentRetries, msg)
    IN  /\ UNCHANGED <<alertVars, storeVars, trendVars,
                       sessionVars, pipelineVars>>
        /\ loop[l].st = "fetch"
        /\ currentRetries < MaxFails /\ failStreak < MaxFails
        /\ isConnected' = r.isConnected
        /\ currentRetries' = r.currentRetries
        /\ emitted' = r.events
        /\ loop' = rearm(loop, l, FALSE)
        /\ pollTimer' = IF loop'[l].st = "timer" THEN l ELSE pollTimer
        /\ lastOp' = "fail" /\ lastLoop' = l /\ lastOld' = loop[l].old
        /\ lastMsg' = msg
        /\ failStreak' = failStreak + 1 /\ fresh' = TRUE
        /\ UNCHANGED <<piAddress, stopped, hadOk>>

\* poll() resumed with a reading, and a listener of event ev throws: emit
\* runs the listeners inside the try block of poll(), so that the rest of
\* the block is skipped and the catch block calls handleError
PollListenerThrows(l, ev, msg) ==
    LET r == pollSuccess(isConnected, currentRetries, piAddress)
        sent == IF ev = "connected" THEN SubSeq(r.events, 1, 1) ELSE r.events
        h == handleError(r.isConnected, r.currentRetries, msg)
    IN  /\ UNCHANGED <<alertVars, storeVars, trendVars,
                       sessionVars, pipelineVars>>
        /\ loop[l].st = "fetch"
        /\ ev = "connected" => ~isConnected
        /\ currentRetries < MaxFails
        /\ isConnected' = h.isConnected
        /\ currentRetries' = h.currentRetries
        /\ emitted' = sent \o h.events
        /\ loop' = rearm(loop, l, FALSE)
        /\ pollTimer' = IF loop'[l].st = "timer" THEN l ELSE pollTimer
        /\ lastOp' = "ok" /\ lastLoop' = l /\ lastOld' = loop[l].old
        /\ lastMsg' = msg
        /\ failStreak' = 0 /\ hadOk' = TRUE /\ fresh' = TRUE
        /\ UNCHANGED <<piAddress, stopped>>

\* -------------------------------------------------------- AlertsManager
\* this.alertCooldown (ms)
alertCooldown == 30000
\* this.maxAlerts of the StorageManager constructor
DefaultMaxAlerts == 500
\* null as a measured value; undefined as an absent bound or argument
Null == -1
Undefined == -2

Sensors == {"respiration", "co2", "bodyTemp", "voc"}
Keys == {"respiration_low", "respiration_high", "co2_high", "temp_low",
         "temp_high", "posture_prone", "voc_high", "gas_unsafe",
         "audio_choking"}

\* the thresholds of the constructor
DefaultThresholds ==
    [respiration |-> [min |-> 20, max |-> 60],
     co2 |-> [min |-> Undefined, max |-> 1000],
     bodyTemp |-> [min |-> 36, max |-> 38],
     voc |-> [min |-> Undefined, max |-> 1]]

\* createAlert(severity, title, description, key), called at time t
createAlert(severity, title, description, key, t) ==
    [severity |-> severity, title |-> title, description |-> description,
     key |-> key, timestamp |-> t]

\* Check respiration without the test for a null value
checkRespiration_noNullCheck(rd, th, t) ==
    IF rd.respiration.value < th.respiration.min
    THEN <<createAlert("CRITICAL", "Apnea Detected (mmWave)",
             <<"No respiration detected for 15 seconds. Current: ",
               rd.respiration.value, " rpm">>, "respiration_low", t)>>
    ELSE IF rd.respiration.value > th.respiration.max
    THEN <<createAlert("WARNING", "High Respiration Rate",
             <<"Respiration rate elevated at ", rd.respiration.value,
               " rpm">>, "respiration_high", t)>>
    ELSE <<>>

\* checkReading: "Check respiration"
checkRespiration(rd, th, t) ==
    IF rd.respiration.value # Null
    THEN IF rd.respiration.value < th.respiration.min
         THEN <<createAlert("CRITICAL", "Apnea Detected (mmWave)",
                  <<"No respiration detected for 15 seconds. Current: ",
                    rd.respiration.value, " rpm">>, "respiration_low", t)>>
         ELSE IF rd.respiration.value > th.respiration.max
         THEN <<createAlert("WARNING", "High Respiration Rate",
                  <<"Respiration rate elevated at ", rd.respiration.value,
                    " rpm">>, "respiration_high", t)>>
         ELSE <<>>
    ELSE <<>>

\* Check CO2 with >= for >
checkCO2_nonStrict(rd, th, t) ==
    IF rd.environment.co2.value # Null /\ rd.environment.co2.value >= th.co2.max
    THEN <<createAlert("WARNING", "High CO2 (MH-Z19C)",
             <<"Carbon dioxide levels exceeded ", th.co2.max,
               " ppm. Current: ", rd.environment.co2.value, " ppm">>,
             "co2_high", t)>>
    ELSE <<>>

\* checkReading: "Check CO2"
checkCO2(rd, th, t) ==
    IF rd.environment.co2.value # Null /\ rd.environment.co2.value > th.co2.max
    THEN <<createAlert("WARNING", "High CO2 (MH-Z19C)",
             <<"Carbon dioxide levels exceeded ", th.co2.max,
               " ppm. Current: ", rd.environment.co2.value, " ppm">>,
             "co2_high", t)>>
    ELSE <<>>

\* Check body temperature with the two severities exchanged
checkBodyTemp_swappedSeverity(rd, th, t) ==
    IF rd.bodyTemp.value # Null
    THEN IF rd.bodyTemp.value < th.bodyTemp.min
         THEN <<createAlert("CRITICAL", "Low Body Temperature",
                  <<"Body temperature below normal at ", rd.bodyTemp.value,
                    " C">>, "temp_low", t)>>
         ELSE IF rd.bodyTemp.value > th.bodyTemp.max
         THEN <<createAlert("WARNING", "High Body Temperature",
                  <<"Fever detected at ", rd.bodyTemp.value, " C">>,
                  "temp_high", t)>>
         ELSE <<>>
    ELSE <<>>

\* checkReading: "Check body temperature"
checkBodyTemp(rd, th, t) ==
    IF rd.bodyTemp.value # Null
    THEN IF rd.bodyTemp.value < th.bodyTemp.min
         THEN <<createAlert("WARNING", "Low Body Temperature",
                  <<"Body temperature below normal at ", rd.bodyTemp.value,
                    " C">>, "temp_low", t)>>
         ELSE IF rd.bodyTemp.value > th.bodyTemp.max
         THEN <<createAlert("CRITICAL", "High Body Temperature",
                  <<"Fever detected at ", rd.bodyTemp.value, " C">>,
                  "temp_high", t)>>
         ELSE <<>>
    ELSE <<>>

\* checkReading: "Check posture"
checkPosture(rd, t) ==
    IF rd.posture.state = "prone"
    THEN <<createAlert("WARNING", "Prone Position (Camera)",
             <<"Infant rolled onto stomach detected by vision system.">>,
             "posture_prone", t)>>
    ELSE <<>>

\* checkReading: "Check VOC"
checkVOC(rd, th, t) ==
    IF rd.environment.voc.value # Null /\ rd.environment.voc.value > th.voc.max
    THEN <<createAlert("WARNING", "High VOC Levels",
             <<"Volatile organic compounds elevated at ",
               rd.environment.voc.value>>, "voc_high", t)>>
    ELSE <<>>

\* checkReading: "Check gas safety"
checkGas(rd, t) ==
    IF rd.environment.gas.safe = FALSE
    THEN <<createAlert("CRITICAL", "Gas Safety Alert",
             <<"Unsafe gas levels detected by MQ-135 sensor.">>,
             "gas_unsafe", t)>>
    ELSE <<>>

\* checkReading: "Check audio for choking"
checkAudio(rd, t) ==
    IF rd.audio.state = "choking"
    THEN <<createAlert("CRITICAL", "Choking Sound (MEMS)",
             <<"Audio pattern matching choking detected.">>,
             "audio_choking", t)>>
    ELSE <<>>

\* the list alerts built by checkReading(reading), in the order of the pushes
evaluate(rd, th, t) ==
    checkRespiration(rd, th, t) \o checkCO2(rd, th, t) \o checkBodyTemp(rd, th, t)
    \o checkPosture(rd, t) \o checkVOC(rd, th, t) \o checkGas(rd, t)
    \o checkAudio(rd, t)

\* shouldTriggerAlert with >= for >
shouldTriggerAlert_nonStrict(key, la, t) == t - la[key] >= alertCooldown

\* shouldTriggerAlert(key): la[key] is 0 for a key never triggered
shouldTriggerAlert(key, la, t) == t - la[key] > alertCooldown

InSeq(x, sq) == \E i \in 1..Len(sq) : sq[i] = x
Range(sq) == {sq[i] : i \in 1..Len(sq)}

\* triggerAlert writing the timestamp under every key
triggerAlert_allKeys(alert, la) == [k \in Keys |-> alert.timestamp]

\* triggerAlert that writes no cooldown timestamp before it suspends
triggerAlert_noStamp(alert, la) == la

\* triggerAlert(alert) up to its first await:
\* this.lastAlerts[alert.key] = alert.timestamp
triggerAlert(alert, la) == [la EXCEPT ![alert.key] = alert.timestamp]

\* the forEach of checkReading calling triggerAlert for every alert, and
\* keeping the result of shouldTriggerAlert only for what follows the write
RECURSIVE processAlerts_stampSuppressed(_, _, _)
processAlerts_stampSuppressed(as, la, t) ==
    IF as = <<>>
    THEN [lastAlerts |-> la, triggered |-> <<>>]
    ELSE LET a == Head(as)
             go == shouldTriggerAlert(a.key, la, t)
             rest == processAlerts_stampSuppressed(Tail(as), triggerAlert(a, la), t)
         IN  [lastAlerts |-> rest.lastAlerts,
              triggered |-> (IF go THEN <<a>> ELSE <<>>) \o rest.triggered]

\* alerts.forEach(alert => { if (shouldTriggerAlert(alert.key))
\* triggerAlert(alert) }): triggerAlert writes lastAlerts[alert.key] before it
\* suspends
RECURSIVE processAlerts(_, _, _)
processAlerts(as, la, t) ==
    IF as = <<>>
    THEN [lastAlerts |-> la, triggered |-> <<>>]
    ELSE LET a == Head(as)
             go == shouldTriggerAlert(a.key, la, t)
             rest == processAlerts(Tail(as),
                        IF go THEN triggerAlert(a, la) ELSE la, t)
         IN  [lastAlerts |-> rest.lastAlerts,
              triggered |-> (IF go THEN <<a>> ELSE <<>>) \o rest.triggered]

\* the record saveAlert adds to the alerts store under the generated key id
alertRecord(alert, id, t) ==
    [id |-> id, severity |-> alert.severity, title |-> alert.title,
     description |-> alert.description, key |-> alert.key,
     timestamp |-> IF alert.timestamp # 0 THEN alert.timestamp ELSE t,
     acknowledged |-> FALSE]

\* the record the cursor over index('timestamp') visits first
FirstByTimestamp(store) ==
    CHOOSE i \in 1..Len(store) :
        \A j \in 1..Len(store) :
            \/ store[i].timestamp < store[j].timestamp
            \/ store[i].timestamp = store[j].timestamp /\ store[i].id <= store[j].id

RemoveAt(sq, i) == SubSeq(sq, 1, i - 1) \o SubSeq(sq, i + 1, Len(sq))

\* cleanupOldAlerts(): deletes count - maxAlerts records in cursor order
RECURSIVE deleteOldest(_, _)
deleteOldest(store, n) ==
    IF n <= 0 \/ store = <<>> THEN store
    ELSE deleteOldest(RemoveAt(store, FirstByTimestamp(store)), n - 1)

cleanupOldAlerts(store, max) ==
    IF Len(store) > max THEN deleteOldest(store, Len(store) - max) ELSE store

\* readings as normalizeReading returns them (the fields checkReading reads)
Reading(resp, co2, temp, posture, voc, gas, audio) ==
    [respiration |-> [value |-> resp],
     audio |-> [state |-> audio],
     bodyTemp |-> [value |-> temp],
     posture |-> [state |-> posture],
     environment |-> [co2 |-> [value |-> co2], voc |-> [value |-> voc],
                      gas |-> [safe |-> gas]]]

AllReadings ==
    {Reading(resp, co2, temp, posture, voc, gas, audio) :
        resp \in {Null, 15, 20, 45, 60, 61},
        co2 \in {Null, 1000, 1001},
        temp \in {Null, 35, 36, 38, 39, 40},
        posture \in {"supine", "prone"},
        voc \in {Null, 1, 2},
        gas \in BOOLEAN,
        audio \in {"quiet", "choking"}}

AlertReadings ==
    {Reading(15, 400, 37, "supine", 0, TRUE, "quiet"),
     Reading(40, 400, 37, "supine", 0, TRUE, "quiet"),
     Reading(15, 400, 37, "prone", 0, FALSE, "quiet")}

\* the AlertsManager and StorageManager constructors, and init()
AlertsInit ==
    /\ thresholds = DefaultThresholds
    /\ lastAlerts = [k \in Keys |-> 0]
    /\ now = StartTime
    /\ pendingSaves = <<>>
    /\ alertStore = <<>> /\ nextAlertId = 1
    /\ pendingSettings = <<>> /\ savedThresholds = <<>>
    /\ alertEvents = <<>>
    /\ reading = Reading(Null, Null, Null, "unknown", Null, TRUE, "unknown")
    /\ alerts = <<>>
    /\ evalLog = <<>> /\ rejected = <<>> /\ lastAlertOp = "init"
    /\ checks = 0 /\ ticks = 0 /\ sets = 0
    /\ maxAlerts = DefaultMaxAlerts /\ cleanups = 0

\* time passes
Tick(d) ==
    /\ ticks < MaxTicks
    /\ now' = now + d
    /\ ticks' = ticks + 1
    /\ lastAlertOp' = "tick"
    /\ UNCHANGED <<thresholds, lastAlerts, dbOpen, pendingSaves, alertStore,
                   nextAlertId, pendingSettings, savedThresholds, alertEvents,
                   reading, alerts, evalLog, rejected, checks, sets,
                   maxAlerts, cleanups>>
    /\ UNCHANGED <<pollerVars, storeVars, trendVars,
                   sessionVars, pipelineVars>>

\* checkReading returning the alerts it triggered only
checkReading_triggeredOnly(r) ==
    LET as == evaluate(r, thresholds, now)
        p == processAlerts(as, lastAlerts, now)
    IN  /\ reading' = r
        /\ alerts' = p.triggered
        /\ lastAlerts' = p.lastAlerts
        /\ IF dbOpen
           THEN /\ pendingSaves' = pendingSaves \o p.triggered
                /\ UNCHANGED alertEvents
           ELSE /\ alertEvents' = alertEvents \o p.triggered
                /\ UNCHANGED pendingSaves
        /\ evalLog' = evalLog \o
              [i \in 1..Len(as) |->
                  [key |-> as[i].key, time |-> now,
                   triggered |-> InSeq(as[i], p.triggered)]]
        /\ checks' = checks + 1
        /\ lastAlertOp' = "check"
        /\ UNCHANGED <<thresholds, now, dbOpen, alertStore, nextAlertId,
                       pendingSettings, savedThresholds, rejected, ticks,
                       sets, maxAlerts, cleanups>>

\* checkReading(reading); a triggerAlert call runs to await saveAlert(alert)
\* when the store is open and to its end (emit) when it is not
checkReading(r) ==
    LET as == evaluate(r, thresholds, now)
        p == processAlerts(as, lastAlerts, now)
    IN  /\ reading' = r
        /\ alerts' = as
        /\ lastAlerts' = p.lastAlerts
        /\ IF dbOpen
           THEN /\ pendingSaves' = pendingSaves \o p.triggered
                /\ UNCHANGED alertEvents
           ELSE /\ alertEvents' = alertEvents \o p.triggered
                /\ UNCHANGED pendingSaves
        /\ evalLog' = evalLog \o
              [i \in 1..Len(as) |->
                  [key |-> as[i].key, time |-> now,
                   triggered |-> InSeq(as[i], p.triggered)]]
        /\ checks' = checks + 1
        /\ lastAlertOp' = "check"
        /\ UNCHANGED <<thresholds, now, dbOpen, alertStore, nextAlertId,
                       pendingSettings, savedThresholds, rejected, ticks,
                       sets, maxAlerts, cleanups>>

CheckReading(r) ==
    /\ checks < MaxChecks
    /\ checkReading(r)
    /\ UNCHANGED <<pollerVars, storeVars, trendVars,
                   sessionVars, pipelineVars>>

\* saveAlert's request.onsuccess: the record is in the store, cleanupOldAlerts
\* is called, and triggerAlert resumes and emits 'alert'
SaveAlertResolve ==
    /\ pendingSaves # <<>>
    /\ alertStore' = Append(alertStore, alertRecord(Head(pendingSaves), nextAlertId, now))
    /\ nextAlertId' = nextAlertId + 1
    /\ cleanups' = cleanups + 1
    /\ pendingSaves' = Tail(pendingSaves)
    /\ alertEvents' = Append(alertEvents, Head(pendingSaves))
    /\ lastAlertOp' = "saved"
    /\ lastStoreOp' = "saveAlert"
    /\ UNCHANGED <<thresholds, lastAlerts, now, dbOpen, pendingSettings,
                   savedThresholds, reading, alerts, evalLog, rejected,
                   checks, ticks, sets, maxAlerts>>
    /\ UNCHANGED <<readingStore, nextReadingId, maxReadings, readingCleanups,
                   query, result, saves>>
    /\ UNCHANGED <<pollerVars, trendVars, sessionVars, pipelineVars>>

\* a triggerAlert that emits the alert also when saveAlert has rejected
SaveAlertReject_emit ==
    /\ pendingSaves # <<>>
    /\ pendingSaves' = Tail(pendingSaves)
    /\ rejected' = Append(rejected, Head(pendingSaves))
    /\ alertEvents' = Append(alertEvents, Head(pendingSaves))
    /\ lastAlertOp' = "rejected"
    /\ UNCHANGED <<thresholds, lastAlerts, now, dbOpen, alertStore,
                   nextAlertId, pendingSettings, savedThresholds,
                   reading, alerts, evalLog, checks, ticks, sets, maxAlerts,
                   cleanups>>
    /\ UNCHANGED <<pollerVars, storeVars, trendVars,
                   sessionVars, pipelineVars>>

\* saveAlert's request.onerror: the await in triggerAlert throws and the rest
\* of triggerAlert is not run
SaveAlertReject ==
    /\ pendingSaves # <<>>
    /\ pendingSaves' = Tail(pendingSaves)
    /\ rejected' = Append(rejected, Head(pendingSaves))
    /\ lastAlertOp' = "rejected"
    /\ UNCHANGED <<thresholds, lastAlerts, now, dbOpen, alertStore,
                   nextAlertId, pendingSettings, savedThresholds, alertEvents,
                   reading, alerts, evalLog, checks, ticks, sets, maxAlerts,
                   cleanups>>
    /\ UNCHANGED <<pollerVars, storeVars, trendVars,
                   sessionVars, pipelineVars>>

\* the transaction of a cleanupOldAlerts() call
CleanupOldAlerts ==
    /\ cleanups > 0
    /\ cleanups' = cleanups - 1
    /\ alertStore' = cleanupOldAlerts(alertStore, maxAlerts)
    /\ lastAlertOp' = "cleanup"
    /\ lastStoreOp' = "cleanupAlerts"
    /\ UNCHANGED <<thresholds, lastAlerts, now, dbOpen, pendingSaves,
                   nextAlertId, pendingSettings, savedThresholds, alertEvents,
                   reading, alerts, evalLog, rejected, checks, ticks, sets,
                   maxAlerts>>
    /\ UNCHANGED <<readingStore, nextReadingId, maxReadings, readingCleanups,
                   query, result, saves>>
    /\ UNCHANGED <<pollerVars, trendVars, sessionVars, pipelineVars>>

\* setThreshold(sensor, min, max) up to await saveThresholds(): saveSetting
\* clones this.thresholds into its put request when the store is open
setThreshold(th, sensor, min, max) ==
    IF sensor \in DOMAIN th
    THEN [th EXCEPT ![sensor] =
            [min |-> IF min # Undefined THEN min ELSE th[sensor].min,
             max |-> IF max # Undefined THEN max ELSE th[sensor].max]]
    ELSE th

setThresholdCall(sensor, min, max) ==
    /\ sets' = sets + 1
    /\ thresholds' = setThreshold(thresholds, sensor, min, max)
    /\ pendingSettings' = IF sensor \in DOMAIN thresholds /\ dbOpen
                          THEN Append(pendingSettings, thresholds')
                          ELSE pendingSettings
    /\ lastAlertOp' = "set"
    /\ UNCHANGED <<lastAlerts, now, dbOpen, pendingSaves, alertStore,
                   nextAlertId, savedThresholds, alertEvents, reading, alerts,
                   evalLog, rejected, checks, ticks, maxAlerts, cleanups>>

SetThreshold(sensor, min, max) ==
    /\ sets < MaxSets
    /\ setThresholdCall(sensor, min, max)
    /\ UNCHANGED <<pollerVars, storeVars, trendVars,
                   sessionVars, pipelineVars>>

\* a put that leaves a record of the same key as it is
saveSetting_keepFirst(saved, value) == IF saved = <<>> THEN <<value>> ELSE saved

\* saveSetting(key, value): store.put({ key, value }) writes the
\* record of that key, over the one there is
saveSetting(saved, value) == <<value>>

\* saveSetting's request.onsuccess / request.onerror
SaveSettingResolve ==
    /\ pendingSettings # <<>>
    /\ savedThresholds' = saveSetting(savedThresholds, Head(pendingSettings))
    /\ pendingSettings' = Tail(pendingSettings)
    /\ lastAlertOp' = "settingSaved"
    /\ UNCHANGED <<thresholds, lastAlerts, now, dbOpen, pendingSaves,
                   alertStore, nextAlertId, alertEvents, reading, alerts,
                   evalLog, rejected, checks, ticks, sets, maxAlerts, cleanups>>
    /\ UNCHANGED <<pollerVars, storeVars, trendVars,
                   sessionVars, pipelineVars>>

SaveSettingReject ==
    /\ pendingSettings # <<>>
    /\ pendingSettings' = Tail(pendingSettings)
    /\ lastAlertOp' = "settingRejected"
    /\ UNCHANGED <<thresholds, lastAlerts, now, dbOpen, pendingSaves,
                   alertStore, nextAlertId, savedThresholds, alertEvents,
                   reading, alerts, evalLog, rejected, checks, ticks, sets,
                   maxAlerts, cleanups>>
    /\ UNCHANGED <<pollerVars, storeVars, trendVars,
                   sessionVars, pipelineVars>>

\* -------------------------------------------------------- StorageManager
\* this.maxReadings of the constructor
DefaultMaxReadings == 10000
\* timestamps carried by the records handed to the store (0: no timestamp)
Stamps == {100, 200, 300}

\* the constructor; the object stores are those of the opened database
StoreInit ==
    /\ readingStore = <<>> /\ nextReadingId = 1
    /\ maxReadings = DefaultMaxReadings
    /\ readingCleanups = 0
    /\ query = <<>> /\ result = [ok |-> TRUE, value |-> <<>>]
    /\ lastStoreOp = "init" /\ saves = 0

\* the record saveReading adds to the readings store under the generated id
readingRecord(rd, ts, id, t) ==
    [id |-> id, timestamp |-> IF ts # 0 THEN ts ELSE t, reading |-> rd]

\* the records of a store in the order of its index('timestamp'): by
\* timestamp, then by primary key
RECURSIVE byTimestamp(_)
byTimestamp(store) ==
    IF store = <<>> THEN <<>>
    ELSE <<store[FirstByTimestamp(store)]>>
         \o byTimestamp(RemoveAt(store, FirstByTimestamp(store)))

\* getReadings with an upper-open key range
getReadings_upperOpen(store, startTime, endTime) ==
    SelectSeq(byTimestamp(store),
              LAMBDA r : startTime <= r.timestamp /\ r.timestamp < endTime)

\* getReadings(startTime, endTime): index.getAll(IDBKeyRange.bound(..))
getReadings(store, startTime, endTime) ==
    SelectSeq(byTimestamp(store),
              LAMBDA r : startTime <= r.timestamp /\ r.timestamp <= endTime)

\* cleanupOldReadings deleting along the timestamp index
cleanupOldReadings_byTimestamp(store, max) ==
    IF Len(store) > max THEN deleteOldest(store, Len(store) - max) ELSE store

\* cleanupOldReadings that deletes nothing
cleanupOldReadings_none(store, max) == store

\* cleanupOldReadings(): store.openCursor() walks the records by primary key
\* (the order of insertion) and deletes the first count - maxReadings
cleanupOldReadings(store, max) ==
    IF Len(store) > max THEN SubSeq(store, Len(store) - max + 1, Len(store))
    ELSE store

\* saveReading(reading): request.onsuccess, which resolves and calls
\* cleanupOldReadings()
saveReading(rd, ts) ==
    /\ readingStore' = Append(readingStore, readingRecord(rd, ts, nextReadingId, now))
    /\ nextReadingId' = nextReadingId + 1
    /\ readingCleanups' = readingCleanups + 1
    /\ query' = <<ts>>
    /\ result' = [ok |-> TRUE, value |-> nextReadingId]
    /\ lastStoreOp' = "saveReading"
    /\ saves' = saves + 1
    /\ UNCHANGED maxReadings

SaveReading(rd, ts) ==
    /\ saves < MaxSaves
    /\ dbOpen
    /\ saveReading(rd, ts)
    /\ UNCHANGED <<pollerVars, alertVars, trendVars,
                   sessionVars, pipelineVars>>

\* the transaction of a cleanupOldReadings() call
CleanupOldReadings ==
    /\ readingCleanups > 0
    /\ readingCleanups' = readingCleanups - 1
    /\ readingStore' = cleanupOldReadings(readingStore, maxReadings)
    /\ lastStoreOp' = "cleanupReadings"
    /\ UNCHANGED <<nextReadingId, maxReadings, query, result, saves>>
    /\ UNCHANGED <<pollerVars, alertVars, trendVars,
                   sessionVars, pipelineVars>>

\* getReadings(startTime, endTime), settled; IDBKeyRange.bound takes a lower
\* bound that is not above the upper bound
GetReadings(startTime, endTime) ==
    /\ dbOpen
    /\ startTime <= endTime
    /\ query' = <<startTime, endTime>>
    /\ result' = [ok |-> TRUE, value |-> getReadings(readingStore, startTime, endTime)]
    /\ lastStoreOp' = "getReadings"
    /\ UNCHANGED <<readingStore, nextReadingId, maxReadings, readingCleanups, saves>>
    /\ UNCHANGED <<pollerVars, alertVars, trendVars,
                   sessionVars, pipelineVars>>

\* saveAlert(alert) called on the store, request.onsuccess: the record is
\* added and cleanupOldAlerts() is called
SaveAlert(alert) ==
    /\ saves < MaxSaves
    /\ dbOpen
    /\ alertStore' = Append(alertStore, alertRecord(alert, nextAlertId, now))
    /\ nextAlertId' = nextAlertId + 1
    /\ cleanups' = cleanups + 1
    /\ query' = <<alert.timestamp>>
    /\ result' = [ok |-> TRUE, value |-> nextAlertId]
    /\ lastStoreOp' = "saveAlert"
    /\ saves' = saves + 1
    /\ lastAlertOp' = "saved"
    /\ UNCHANGED <<thresholds, lastAlerts, now, dbOpen, pendingSaves,
                   pendingSettings, savedThresholds, alertEvents, reading,
                   alerts, evalLog, rejected, checks, ticks, sets, maxAlerts>>
    /\ UNCHANGED <<readingStore, nextReadingId, maxReadings, readingCleanups>>
    /\ UNCHANGED <<pollerVars, trendVars, sessionVars, pipelineVars>>

\* values of the acknowledgedOnly parameter of getAlerts
Filters == {"null", "true", "false"}

\* request.result.sort((a, b) => b.timestamp - a.timestamp): the sort is
\* stable, records of one timestamp keep their order
LastByTimestamp(sq) ==
    CHOOSE i \in 1..Len(sq) :
        \A j \in 1..Len(sq) :
            \/ sq[i].timestamp > sq[j].timestamp
            \/ sq[i].timestamp = sq[j].timestamp /\ i <= j

RECURSIVE sortDescending(_)
sortDescending(sq) ==
    IF sq = <<>> THEN <<>>
    ELSE <<sq[LastByTimestamp(sq)]>>
         \o sortDescending(RemoveAt(sq, LastByTimestamp(sq)))

\* getAlerts(acknowledgedOnly): store.getAll() when the parameter is null;
\* otherwise index('acknowledged').getAll(acknowledgedOnly), which throws a
\* DataError because a boolean is not a valid key, so the promise rejects
getAlerts(store, acknowledgedOnly) ==
    IF acknowledgedOnly = "null"
    THEN [ok |-> TRUE, value |-> sortDescending(store)]
    ELSE [ok |-> FALSE, value |-> <<>>]

GetAlerts(acknowledgedOnly) ==
    /\ dbOpen
    /\ query' = <<acknowledgedOnly>>
    /\ result' = getAlerts(alertStore, acknowledgedOnly)
    /\ lastStoreOp' = "getAlerts"
    /\ UNCHANGED <<readingStore, nextReadingId, maxReadings, readingCleanups, saves>>
    /\ UNCHANGED <<pollerVars, alertVars, trendVars,
                   sessionVars, pipelineVars>>

\* acknowledgeAlert that puts a record when store.get finds none
acknowledgeAlert_upsert(store, alertId) ==
    IF \E i \in 1..Len(store) : store[i].id = alertId
    THEN [store |-> [i \in 1..Len(store) |->
                        IF store[i].id = alertId
                        THEN [store[i] EXCEPT !.acknowledged = TRUE]
                        ELSE store[i]],
          value |-> TRUE]
    ELSE [store |-> Append(store, [id |-> alertId, acknowledged |-> TRUE]),
          value |-> TRUE]

\* acknowledgeAlert that flips the flag of the record
acknowledgeAlert_toggle(store, alertId) ==
    IF \E i \in 1..Len(store) : store[i].id = alertId
    THEN [store |-> [i \in 1..Len(store) |->
                        IF store[i].id = alertId
                        THEN [store[i] EXCEPT !.acknowledged = ~store[i].acknowledged]
                        ELSE store[i]],
          value |-> TRUE]
    ELSE [store |-> store, value |-> FALSE]

\* acknowledgeAlert(alertId): store.get(alertId), then put of the record with
\* acknowledged = true, or resolve(false) when there is no such record
acknowledgeAlert(store, alertId) ==
    IF \E i \in 1..Len(store) : store[i].id = alertId
    THEN [store |-> [i \in 1..Len(store) |->
                        IF store[i].id = alertId
                        THEN [store[i] EXCEPT !.acknowledged = TRUE]
                        ELSE store[i]],
          value |-> TRUE]
    ELSE [store |-> store, value |-> FALSE]

AcknowledgeAlert(alertId) ==
    /\ dbOpen
    /\ alertStore' = acknowledgeAlert(alertStore, alertId).store
    /\ query' = <<alertId>>
    /\ result' = [ok |-> TRUE, value |-> acknowledgeAlert(alertStore, alertId).value]
    /\ lastStoreOp' = "acknowledgeAlert"
    /\ lastAlertOp' = "acknowledge"
    /\ UNCHANGED <<thresholds, lastAlerts, now, dbOpen, pendingSaves,
                   nextAlertId, pendingSettings, savedThresholds, alertEvents,
                   reading, alerts, evalLog, rejected, checks, ticks, sets,
                   maxAlerts, cleanups>>
    /\ UNCHANGED <<readingStore, nextReadingId, maxReadings, readingCleanups, saves>>
    /\ UNCHANGED <<pollerVars, trendVars, sessionVars, pipelineVars>>

\* clearAlerts(): store.clear() in a transaction of its own
ClearAlerts ==
    /\ dbOpen
    /\ alertStore' = <<>>
    /\ query' = <<>>
    /\ result' = [ok |-> TRUE, value |-> TRUE]
    /\ lastStoreOp' = "clearAlerts"
    /\ lastAlertOp' = "clear"
    /\ UNCHANGED <<thresholds, lastAlerts, now, dbOpen, pendingSaves,
                   nextAlertId, pendingSettings, savedThresholds, alertEvents,
                   reading, alerts, evalLog, rejected, checks, ticks, sets,
                   maxAlerts, cleanups>>
    /\ UNCHANGED <<readingStore, nextReadingId, maxReadings, readingCleanups, saves>>
    /\ UNCHANGED <<pollerVars, trendVars, sessionVars, pipelineVars>>

\* --------------------------------------------------------- TrendsManager
cacheExpiry == 60000
HourMs == 3600000

\* this.timeRanges
timeRanges == [h1 |-> 1, h24 |-> 24, d7 |-> 168, m1 |-> 720]

\* this.timeRanges[timeRange] || 1
hours(timeRange) ==
    CASE timeRange = "1h" -> timeRanges.h1
      [] timeRange = "24h" -> timeRanges.h24
      [] timeRange = "7d" -> timeRanges.d7
      [] timeRange = "1m" -> timeRanges.m1
      [] OTHER -> 1

\* the constructor
TrendsInit ==
    /\ cachedData = <<>> /\ lastCacheTime = <<>>
    /\ pendingCharts = <<>>
    /\ chartResult = <<>> /\ displayData = <<>>
    /\ served = <<>> /\ charts = 0

SessionInit == session = 0 /\ sessionStart = 0

\* the switch of extractSensorData: the value of the sensor in a stored
\* reading, Null when the reading has none
sensorValue(r, sensor) ==
    CASE sensor = "respiration" -> r.reading.respiration.value
      [] sensor = "bodyTemp" -> r.reading.bodyTemp.value
      [] sensor = "co2" -> r.reading.environment.co2.value
      [] sensor = "voc" -> r.reading.environment.voc.value
      [] OTHER -> Null

\* extractSensorData pushing 0 for a reading without a value
extractSensorData_zeroFill(readings, sensor) ==
    [points |-> [i \in 1..Len(readings) |->
                    [x |-> readings[i].timestamp,
                     y |-> IF sensorValue(readings[i], sensor) # Null
                           THEN sensorValue(readings[i], sensor) ELSE 0]],
     values |-> [i \in 1..Len(readings) |->
                    IF sensorValue(readings[i], sensor) # Null
                    THEN sensorValue(readings[i], sensor) ELSE 0],
     timestamps |-> [i \in 1..Len(readings) |-> readings[i].timestamp]]

\* extractSensorData(readings, sensor)
extractSensorData(readings, sensor) ==
    LET kept == SelectSeq(readings, LAMBDA r : sensorValue(r, sensor) # Null)
    IN  [points |-> [i \in 1..Len(kept) |->
                        [x |-> kept[i].timestamp, y |-> sensorValue(kept[i], sensor)]],
         values |-> [i \in 1..Len(kept) |-> sensorValue(kept[i], sensor)],
         timestamps |-> [i \in 1..Len(kept) |-> kept[i].timestamp]]

RECURSIVE reduceSum(_)
reduceSum(values) ==
    IF values = <<>> THEN 0 ELSE Head(values) + reduceSum(Tail(values))

\* calculateStats(values); min, max and avg are given in hundredths, avg being
\* Math.round(avg * 100) of a non-negative average
calculateStats(values) ==
    IF values = <<>>
    THEN [min |-> Null, max |-> Null, avg |-> Null, count |-> 0]
    ELSE [min |-> 100 * (CHOOSE v \in Range(values) : \A w \in Range(values) : v <= w),
          max |-> 100 * (CHOOSE v \in Range(values) : \A w \in Range(values) : v >= w),
          avg |-> (200 * reduceSum(values) + Len(values)) \div (2 * Len(values)),
          count |-> Len(values)]

getEmptyData ==
    [points |-> <<>>, values |-> <<>>, timestamps |-> <<>>,
     stats |-> [min |-> Null, max |-> Null, avg |-> Null, count |-> 0],
     isEmpty |-> TRUE]

\* the cache test with <= for <
cacheHit_nonStrict(cd, lct, key, t) ==
    key \in DOMAIN cd /\ t - lct[key] <= cacheExpiry

\* the cache test of getChartData
cacheHit(cd, lct, key, t) ==
    key \in DOMAIN cd /\ t - lct[key] < cacheExpiry

\* getChartData that returns its result without caching it
cachePut_skip(f, key, v) == f

\* this.cachedData[cacheKey] = result; this.lastCacheTime[cacheKey] = now
cachePut(f, key, v) ==
    [k \in DOMAIN f \cup {key} |-> IF k = key THEN v ELSE f[k]]

\* the loop of downsample: the entries at indices i, i + step, ...
RECURSIVE sample(_, _, _)
sample(sq, i, step) ==
    IF i >= Len(sq) THEN <<>>
    ELSE <<sq[i + 1]>> \o sample(sq, i + step, step)

\* downsample with Math.floor for Math.ceil
downsample_floorStep(data, maxPoints) ==
    IF Len(data.points) <= maxPoints THEN data
    ELSE LET step == Len(data.points) \div maxPoints
         IN  [data EXCEPT !.points = sample(data.points, 0, step),
                          !.values = sample(data.values, 0, step),
                          !.timestamps = sample(data.timestamps, 0, step)]

\* downsample(data, maxPoints), maxPoints a positive integer:
\* step = Math.ceil(data.points.length / maxPoints)
downsample(data, maxPoints) ==
    IF Len(data.points) <= maxPoints THEN data
    ELSE LET step == (Len(data.points) + maxPoints - 1) \div maxPoints
         IN  [data EXCEPT !.points = sample(data.points, 0, step),
                          !.values = sample(data.values, 0, step),
                          !.timestamps = sample(data.timestamps, 0, step)]

\* getChartData(sensor, timeRange) up to its return from the cache or with
\* empty data, or to await getReadingsLastHours(hours)
GetChartData(sensor, timeRange) ==
    LET key == <<sensor, timeRange>> IN
    /\ charts < MaxCharts
    /\ charts' = charts + 1
    /\ IF cacheHit(cachedData, lastCacheTime, key, now)
       THEN /\ chartResult' = cachedData[key]
            /\ served' = Append(served, [key |-> key, time |-> now,
                                         cached |-> TRUE, session |-> session,
                                         called |-> now, after |-> Len(served),
                                         value |-> cachedData[key]])
            /\ UNCHANGED pendingCharts
       ELSE IF ~dbOpen
       THEN /\ chartResult' = getEmptyData
            /\ served' = Append(served, [key |-> key, time |-> now,
                                         cached |-> FALSE, session |-> session,
                                         called |-> now, after |-> Len(served),
                                         value |-> getEmptyData])
            /\ UNCHANGED pendingCharts
       ELSE /\ pendingCharts' = Append(pendingCharts,
                [sensor |-> sensor, timeRange |-> timeRange, now |-> now,
                 hours |-> hours(timeRange), after |-> Len(served)])
            /\ UNCHANGED <<chartResult, served>>
    /\ UNCHANGED <<cachedData, lastCacheTime, displayData>>
    /\ UNCHANGED <<pollerVars, alertVars, storeVars,
                   sessionVars, pipelineVars>>

\* what getChartData builds from the readings of its window
chartData(readings, sensor, timeRange) ==
    [points |-> extractSensorData(readings, sensor).points,
     values |-> extractSensorData(readings, sensor).values,
     timestamps |-> extractSensorData(readings, sensor).timestamps,
     stats |-> calculateStats(extractSensorData(readings, sensor).values),
     timeRange |-> timeRange, sensor |-> sensor]

\* getChartData caching whatever it returns
ChartQueryDone_cacheEmpty ==
    /\ pendingCharts # <<>>
    /\ LET p == Head(pendingCharts)
           key == <<p.sensor, p.timeRange>>
           readings == getReadings(readingStore, p.now - p.hours * HourMs, p.now)
           res == IF readings = <<>> THEN getEmptyData
                  ELSE chartData(readings, p.sensor, p.timeRange)
       IN  /\ pendingCharts' = Tail(pendingCharts)
           /\ served' = Append(served, [key |-> key, time |-> now,
                                        cached |-> FALSE, session |-> session,
                                        called |-> p.now, after |-> p.after,
                                        value |-> res])
           /\ chartResult' = res
           /\ cachedData' = cachePut(cachedData, key, res)
           /\ lastCacheTime' = cachePut(lastCacheTime, key, p.now)
    /\ UNCHANGED <<charts, displayData>>
    /\ UNCHANGED <<pollerVars, alertVars, storeVars,
                   sessionVars, pipelineVars>>

\* getChartData resumed with the readings of the last hours: an empty list is
\* returned as empty data, anything else is computed, cached and returned
ChartQueryDone ==
    /\ pendingCharts # <<>>
    /\ LET p == Head(pendingCharts)
           key == <<p.sensor, p.timeRange>>
           readings == getReadings(readingStore, p.now - p.hours * HourMs, p.now)
           res == IF readings = <<>> THEN getEmptyData
                  ELSE chartData(readings, p.sensor, p.timeRange)
       IN  /\ pendingCharts' = Tail(pendingCharts)
           /\ served' = Append(served, [key |-> key, time |-> now,
                                        cached |-> FALSE, session |-> session,
                                        called |-> p.now, after |-> p.after,
                                        value |-> res])
           /\ chartResult' = res
           /\ IF readings = <<>>
              THEN UNCHANGED <<cachedData, lastCacheTime>>
              ELSE /\ cachedData' = cachePut(cachedData, key, res)
                   /\ lastCacheTime' = cachePut(lastCacheTime, key, p.now)
    /\ UNCHANGED <<charts, displayData>>
    /\ UNCHANGED <<pollerVars, alertVars, storeVars,
                   sessionVars, pipelineVars>>

\* downsample(data, maxPoints) of the data getChartData returned last
Downsample(maxPoints) ==
    /\ chartResult # <<>>
    /\ displayData' = [maxPoints |-> maxPoints,
                       value |-> downsample(chartResult, maxPoints)]
    /\ UNCHANGED <<cachedData, lastCacheTime, pendingCharts, chartResult,
                   served, charts>>
    /\ UNCHANGED <<pollerVars, alertVars, storeVars,
                   sessionVars, pipelineVars>>

\* --------------------------------------------------------- normalizer
\* JavaScript values as response.json() and the normalizer produce them
JNull == [t |-> "null"]
JUndefined == [t |-> "undefined"]
JNum(n) == [t |-> "number", n |-> n]
JInfinity == [t |-> "number", nonfinite |-> "Infinity"]
JStr(str) == [t |-> "string", s |-> str]
JBool(b) == [t |-> "boolean", b |-> b]
JObj(fields) == [t |-> "object", f |-> fields]

\* v.name of a value that is neither null nor undefined: the property of an
\* object, undefined for a missing property and for the properties a
\* number, a string or a boolean does not have
prop(v, name) ==
    IF v.t = "object" /\ name \in DOMAIN v.f THEN v.f[name] ELSE JUndefined

\* v?.name
optProp(v, name) ==
    IF v.t \in {"null", "undefined"} THEN JUndefined ELSE prop(v, name)

\* a ?? b
nullish(a, b) == IF a.t \in {"null", "undefined"} THEN b ELSE a

\* a || b: null, undefined, 0, NaN, '' and false are falsy
orElse(a, b) ==
    LET falsy == \/ a.t \in {"null", "undefined"}
                 \/ a.t = "number" /\ "n" \in DOMAIN a /\ a.n = 0
                 \/ a.t = "string" /\ a.s = ""
                 \/ a.t = "boolean" /\ ~a.b
    IN  IF falsy THEN b ELSE a

\* data.environment?.sensor?.value ?? data.environment?.sensor ?? dflt
envValue(data, sensor, field, dflt) ==
    nullish(optProp(optProp(optProp(data, "environment"), sensor), field),
            nullish(optProp(optProp(data, "environment"), sensor), dflt))

\* normalizeReading(data) at Date.now() = t: data.timestamp of null or
\* undefined throws a TypeError, every other access is data.x?.y
normalizeReading(data, t) ==
    IF data.t \in {"null", "undefined"}
    THEN [ok |-> FALSE, error |-> "TypeError"]
    ELSE [ok |-> TRUE, value |-> [
        timestamp |-> orElse(prop(data, "timestamp"), JNum(t)),
        respiration |-> [
            value |-> nullish(optProp(optProp(data, "respiration"), "value"), JNull),
            unit |-> orElse(optProp(optProp(data, "respiration"), "unit"), JStr("rpm")),
            confidence |-> nullish(optProp(optProp(data, "respiration"), "confidence"), JNum(1))],
        audio |-> [
            state |-> orElse(optProp(optProp(data, "audio"), "state"), JStr("unknown")),
            level |-> nullish(optProp(optProp(data, "audio"), "level"), JNum(0))],
        bodyTemp |-> [
            value |-> nullish(optProp(optProp(data, "body_temp"), "value"), JNull),
            unit |-> orElse(optProp(optProp(data, "body_temp"), "unit"), JStr("C"))],
        posture |-> [
            state |-> orElse(optProp(optProp(data, "posture"), "state"), JStr("unknown")),
            confidence |-> nullish(optProp(optProp(data, "posture"), "confidence"), JNum(1))],
        radar |-> [
            active |-> nullish(optProp(optProp(data, "radar"), "active"), JBool(FALSE)),
            movement |-> nullish(optProp(optProp(data, "radar"), "movement"), JNum(0))],
        environment |-> [
            temp |-> [
                value |-> envValue(data, "temp", "value", JNull),
                unit |-> orElse(optProp(optProp(optProp(data, "environment"), "temp"), "unit"),
                                JStr("C"))],
            co2 |-> [
                value |-> envValue(data, "co2", "value", JNull),
                unit |-> orElse(optProp(optProp(optProp(data, "environment"), "co2"), "unit"),
                                JStr("ppm"))],
            voc |-> [value |-> envValue(data, "voc", "value", JNull)],
            gas |-> [safe |-> envValue(data, "gas", "safe", JBool(TRUE))]]]]

PipelineInit ==
    /\ payload = JUndefined /\ normalized = <<>>
    /\ lastReading = <<>> /\ pendingReadings = <<>>
    /\ dataEvents = 0 /\ storedLog = <<>> /\ checkedLog = <<>>

\* fetchReadings(): return this.normalizeReading(data)
NormalizeReading ==
    /\ normalized = <<>>
    /\ normalized' = normalizeReading(payload, now)
    /\ UNCHANGED <<payload, lastReading, pendingReadings, dataEvents,
                   storedLog, checkedLog>>
    /\ UNCHANGED <<pollerVars, alertVars, storeVars, trendVars, sessionVars>>

\* ------------------------------------------------------ data listener
\* the add request of a new transaction is served first
enqueue_front(q, e) == <<e>> \o q

\* saveReading(reading) makes a readwrite transaction on 'readings' and
\* puts one add request in it; transactions on one store run in the order
\* they were made
enqueue(q, e) == Append(q, e)

\* cm.on('data', ..) up to await saveReading(reading).  With no store open
\* this.db.transaction throws in the promise executor, the await rejects
\* at once and the listener goes on to checkReading(reading).
DataEvent(r) ==
    LET e == [seq |-> dataEvents + 1, reading |-> r, timestamp |-> now,
              behind |-> Len(pendingReadings)]
    IN  /\ dataEvents < MaxData
        /\ dataEvents' = dataEvents + 1
        /\ lastReading' = r
        /\ IF dbOpen
           THEN /\ pendingReadings' = enqueue(pendingReadings, e)
                /\ UNCHANGED <<checkedLog, alertVars>>
           ELSE /\ checkReading(r)
                /\ checkedLog' = Append(checkedLog, e)
                /\ UNCHANGED pendingReadings
        /\ UNCHANGED <<payload, normalized, storedLog>>
        /\ UNCHANGED <<pollerVars, storeVars, trendVars, sessionVars>>

\* the add request of the oldest suspended listener succeeds: the record is
\* stored, cleanupOldReadings() is called and the listener resumes with
\* checkReading(reading)
SaveReadingResolve ==
    /\ pendingReadings # <<>>
    /\ LET e == Head(pendingReadings)
       IN  /\ saveReading(e.reading, e.timestamp)
           /\ storedLog' = Append(storedLog, [seq |-> e.seq, id |-> nextReadingId])
           /\ checkReading(e.reading)
           /\ checkedLog' = Append(checkedLog, e)
    /\ pendingReadings' = Tail(pendingReadings)
    /\ UNCHANGED <<payload, normalized, lastReading, dataEvents>>
    /\ UNCHANGED <<pollerVars, trendVars, sessionVars>>

\* a listener that gives the reading up when its save has failed
SaveReadingReject_noCheck ==
    /\ pendingReadings # <<>>
    /\ pendingReadings' = Tail(pendingReadings)
    /\ UNCHANGED <<payload, normalized, lastReading, dataEvents, storedLog,
                   checkedLog>>
    /\ UNCHANGED <<pollerVars, alertVars, storeVars, trendVars, sessionVars>>

\* the add request fails (request.onerror): nothing is stored, the listener
\* logs the error and resumes with checkReading(reading)
SaveReadingReject ==
    /\ pendingReadings # <<>>
    /\ LET e == Head(pendingReadings)
       IN  /\ checkReading(e.reading)
           /\ checkedLog' = Append(checkedLog, e)
    /\ pendingReadings' = Tail(pendingReadings)
    /\ UNCHANGED <<payload, normalized, lastReading, dataEvents, storedLog>>
    /\ UNCHANGED <<pollerVars, storeVars, trendVars, sessionVars>>

\* ------------------------------------------------------------- page load
\* loadThresholds that leaves the saved setting aside
loadThresholds_ignoreSaved(th, saved) == th

\* loadThresholds(): { ...this.thresholds, ...saved } when a setting is saved
loadThresholds(th, saved) ==
    IF saved # <<>>
    THEN [sn \in DOMAIN th \cup DOMAIN saved[1] |->
             IF sn \in DOMAIN saved[1] THEN saved[1][sn] ELSE th[sn]]
    ELSE th

\* the page is closed and loaded again: the four managers are constructed
\* anew and the DOMContentLoaded handler opens the store (or fails to) and
\* loads the thresholds, which takes a millisecond at least; the requests not
\* settled go with the old page, what the object stores hold stays
Restart(open) ==
    /\ session < MaxRestarts
    /\ session' = session + 1
    /\ sessionStart' = Len(evalLog)
    /\ isConnected' = FALSE /\ currentRetries' = 0 /\ pollTimer' = NoTimer
    /\ piAddress' = "192.168.4.1"
    /\ loop' = [l \in Loops |-> Idle]
    /\ emitted' = <<>>
    /\ lastOp' = "init" /\ lastLoop' = 0 /\ lastMsg' = "" /\ lastOld' = FALSE
    /\ stopped' = FALSE /\ failStreak' = 0 /\ hadOk' = FALSE /\ fresh' = TRUE
    /\ dbOpen' = open
    /\ thresholds' = IF open THEN loadThresholds(DefaultThresholds, savedThresholds)
                     ELSE DefaultThresholds
    /\ lastAlerts' = [k \in Keys |-> 0]
    /\ pendingSaves' = <<>> /\ pendingSettings' = <<>> /\ cleanups' = 0
    /\ lastAlertOp' = "restart"
    /\ now' = now + 1
    /\ UNCHANGED <<alertStore, nextAlertId, savedThresholds, alertEvents,
                   reading, alerts, evalLog, rejected, checks, ticks, sets,
                   maxAlerts>>
    /\ readingCleanups' = 0
    /\ query' = <<>> /\ result' = [ok |-> TRUE, value |-> <<>>]
    /\ lastStoreOp' = "init"
    /\ UNCHANGED <<readingStore, nextReadingId, maxReadings, saves>>
    /\ cachedData' = <<>> /\ lastCacheTime' = <<>>
    /\ pendingCharts' = <<>> /\ chartResult' = <<>> /\ displayData' = <<>>
    /\ UNCHANGED <<served, charts>>
    /\ lastReading' = <<>> /\ pendingReadings' = <<>>
    /\ UNCHANGED <<payload, normalized, dataEvents, storedLog, checkedLog>>

\* ------------------------------------------------------- specifications
\* the poller alone
Next ==
    \/ Start
    \/ Stop
    \/ \E a \in Addresses : Configure(a)
    \/ \E l \in Loops : TimerFire(l)
    \/ \E l \in Loops : PollOk(l)
    \/ \E l \in Loops, m \in Messages : PollFail(l, m)

\* the poller with listeners that may throw
NextListeners ==
    \/ Next
    \/ \E l \in Loops, ev \in {"connected", "data"} :
          PollListenerThrows(l, ev, "listener failed")

\* the application after DOMContentLoaded with the store opened
Init == PollerInit /\ AlertsInit /\ StoreInit /\ TrendsInit /\ SessionInit /\ PipelineInit /\ dbOpen = TRUE

Spec == Init /\ [][Next]_vars

SpecListeners == Init /\ [][NextListeners]_vars

\* the event loop runs every due timer callback and every settled request
\* (fetchReadings() settles within its 5000 ms abort timeout)
FairSpec ==
    /\ Spec
    /\ \A l \in Loops : WF_vars(TimerFire(l))
    /\ \A l \in Loops : WF_vars(PollOk(l) \/ \E m \in Messages : PollFail(l, m))

TypeOK ==
    /\ isConnected \in BOOLEAN
    /\ currentRetries \in 0..MaxFails
    /\ pollTimer \in Loops \cup {NoTimer}
    /\ piAddress \in Addresses

\* the alert engine with the default thresholds, under a running clock
NextAlerts ==
    \/ \E d \in {1, alertCooldown} : Tick(d)
    \/ \E r \in AlertReadings : CheckReading(r)
    \/ SaveAlertResolve
    \/ SaveAlertReject
    \/ CleanupOldAlerts

\* init() of the store may have failed: storageManager.db stays null
InitAlerts == PollerInit /\ AlertsInit /\ StoreInit /\ TrendsInit /\ SessionInit /\ PipelineInit /\ dbOpen \in BOOLEAN

SpecAlerts == InitAlerts /\ [][NextAlerts]_vars

\* the first checkReading call of the session
FirstCheck(r) == checks = 0 /\ CheckReading(r)

\* one checkReading call on any reading, after the thresholds were
\* configured; the store is not open, so setThreshold saves nothing
ThresholdInputs == {Undefined, 40, 50}
NextCheck ==
    \/ \E sn \in {"respiration", "bodyTemp", "audio"},
          mn \in ThresholdInputs, mx \in ThresholdInputs :
          SetThreshold(sn, mn, mx)
    \/ \E r \in AllReadings : FirstCheck(r)

InitCheck == PollerInit /\ AlertsInit /\ StoreInit /\ TrendsInit /\ SessionInit /\ PipelineInit /\ dbOpen = FALSE

SpecCheck == InitCheck /\ [][NextCheck]_vars


\* the readings store alone, configured with a small ceiling
StoredReading == Reading(40, 400, 37, "supine", 0, TRUE, "quiet")

NextReadings ==
    \/ \E ts \in Stamps \cup {0} : SaveReading(StoredReading, ts)
    \/ CleanupOldReadings
    \/ \E s \in Stamps, e \in Stamps : GetReadings(s, e)

InitReadings ==
    /\ PollerInit /\ AlertsInit /\ TrendsInit /\ SessionInit /\ PipelineInit /\ dbOpen = TRUE
    /\ readingStore = <<>> /\ nextReadingId = 1
    /\ maxReadings = CeilingReadings
    /\ readingCleanups = 0
    /\ query = <<>> /\ result = [ok |-> TRUE, value |-> <<>>]
    /\ lastStoreOp = "init" /\ saves = 0

SpecReadings == InitReadings /\ [][NextReadings]_vars

\* the alerts store alone, configured with a small ceiling
StoredAlert(ts) ==
    createAlert("WARNING", "Prone Position (Camera)",
                <<"Infant rolled onto stomach detected by vision system.">>,
                "posture_prone", ts)

NextAlertStore ==
    \/ \E ts \in Stamps \cup {0} : SaveAlert(StoredAlert(ts))
    \/ CleanupOldAlerts
    \/ \E f \in Filters : GetAlerts(f)
    \/ \E id \in 1..(MaxSaves + 1) : AcknowledgeAlert(id)

InitAlertStore ==
    /\ PollerInit /\ StoreInit /\ TrendsInit /\ SessionInit /\ PipelineInit /\ dbOpen = TRUE
    /\ thresholds = DefaultThresholds
    /\ lastAlerts = [k \in Keys |-> 0]
    /\ now = StartTime
    /\ pendingSaves = <<>>
    /\ alertStore = <<>> /\ nextAlertId = 1
    /\ pendingSettings = <<>> /\ savedThresholds = <<>>
    /\ alertEvents = <<>>
    /\ reading = Reading(Null, Null, Null, "unknown", Null, TRUE, "unknown")
    /\ alerts = <<>>
    /\ evalLog = <<>> /\ rejected = <<>> /\ lastAlertOp = "init"
    /\ checks = 0 /\ ticks = 0 /\ sets = 0
    /\ maxAlerts = CeilingAlerts /\ cleanups = 0

SpecAlertStore == InitAlertStore /\ [][NextAlertStore]_vars

\* the alerts of a session from trigger to removal, the store configured
\* with a small ceiling and possibly not open
NextAlertLife ==
    \/ Tick(alertCooldown + 1)
    \/ CheckReading(Reading(15, 400, 37, "prone", 0, TRUE, "quiet"))
    \/ SaveAlertResolve
    \/ SaveAlertReject
    \/ CleanupOldAlerts
    \/ \E id \in 1..CeilingAlerts : AcknowledgeAlert(id)
    \/ ClearAlerts

InitAlertLife ==
    /\ PollerInit /\ StoreInit /\ TrendsInit /\ SessionInit /\ PipelineInit
    /\ dbOpen \in BOOLEAN
    /\ thresholds = DefaultThresholds
    /\ lastAlerts = [k \in Keys |-> 0]
    /\ now = StartTime
    /\ pendingSaves = <<>>
    /\ alertStore = <<>> /\ nextAlertId = 1
    /\ pendingSettings = <<>> /\ savedThresholds = <<>>
    /\ alertEvents = <<>>
    /\ reading = Reading(Null, Null, Null, "unknown", Null, TRUE, "unknown")
    /\ alerts = <<>>
    /\ evalLog = <<>> /\ rejected = <<>> /\ lastAlertOp = "init"
    /\ checks = 0 /\ ticks = 0 /\ sets = 0
    /\ maxAlerts = CeilingAlerts /\ cleanups = 0

SpecAlertLife == InitAlertLife /\ [][NextAlertLife]_vars

\* the application across a reload of the page
RestartReading == Reading(15, 400, 37, "supine", 0, TRUE, "quiet")

\* the first saveReading call on the store
FirstSave(rd, ts) == saves = 0 /\ SaveReading(rd, ts)

NextRestart ==
    \/ CheckReading(RestartReading)
    \/ SaveAlertResolve
    \/ CleanupOldAlerts
    \/ FirstSave(RestartReading, 0)
    \/ CleanupOldReadings
    \/ SetThreshold("bodyTemp", 35, Undefined)
    \/ SaveSettingResolve
    \/ GetChartData("respiration", "1h")
    \/ ChartQueryDone
    \/ GetReadings(0, StartTime + MaxTicks)
    \/ GetAlerts("null")
    \/ \E open \in BOOLEAN : Restart(open)

SpecRestart == Init /\ [][NextRestart]_vars

\* the aggregator over a store that is written while the clock runs
TrendValues == {Null, 30, 41}
TrendReading(resp) == Reading(resp, 400, 37, "supine", 0, TRUE, "quiet")

TrendSave(rd) == saves < MaxTrendSaves /\ SaveReading(rd, 0)

NextTrends ==
    \/ \E d \in {10000, 50000, HourMs} : Tick(d)
    \/ \E v \in TrendValues : TrendSave(TrendReading(v))
    \/ GetChartData("respiration", "1h")
    \/ ChartQueryDone

SpecTrends == Init /\ [][NextTrends]_vars

\* one chart of a stored series, downsampled for display
FirstChart(sensor, timeRange) == charts = 0 /\ GetChartData(sensor, timeRange)

Series(vals) ==
    [i \in 1..Len(vals) |-> readingRecord(TrendReading(vals[i]), 100 * i, i, StartTime)]

NextDownsample ==
    \/ FirstChart("respiration", "1h")
    \/ ChartQueryDone
    \/ \E mp \in 1..3 : Downsample(mp)

InitDownsample ==
    /\ PollerInit /\ AlertsInit /\ TrendsInit /\ SessionInit /\ PipelineInit /\ dbOpen = TRUE
    /\ \E n \in 0..MaxSeries : \E vals \in [1..n -> TrendValues] :
          /\ readingStore = Series(vals)
          /\ nextReadingId = n + 1
    /\ maxReadings = DefaultMaxReadings
    /\ readingCleanups = 0
    /\ query = <<>> /\ result = [ok |-> TRUE, value |-> <<>>]
    /\ lastStoreOp = "init" /\ saves = 0

SpecDownsample == InitDownsample /\ [][NextDownsample]_vars

\* the normalizer over the bodies a Pi may answer with: no object, or an
\* object of some of the fields timestamp, respiration, audio, environment
\* (a field of value JUndefined is left out: JSON has no undefined)
Payloads ==
    LET Object(fields) ==
            JObj([name \in {x \in DOMAIN fields : fields[x] # JUndefined}
                     |-> fields[name]])
        Empty == JObj([x \in {} |-> JNull])
        Leaves == {JNull, JNum(0), JNum(12), JInfinity, JStr("12"), JBool(FALSE)}
        RespirationBodies ==
            {JUndefined, JNull, JNum(12), Empty}
                \cup {Object([value |-> v]) : v \in Leaves}
        AudioBodies ==
            {JUndefined, Object([state |-> JStr("crying")]),
             Object([state |-> JNum(3)]), Object([state |-> JStr("")]),
             Object([state |-> JNull])}
        EnvironmentBodies ==
            {JUndefined, JNull,
             Object([temp |-> JNum(21)]),
             Object([temp |-> Object([unit |-> JStr("F")])]),
             Object([temp |-> Object([value |-> JNum(21), unit |-> JStr("F")])]),
             Object([co2 |-> JStr("high")]),
             Object([co2 |-> Object([value |-> JNum(400)])]),
             Object([voc |-> JNum(3)]),
             Object([gas |-> JBool(FALSE)]),
             Object([gas |-> Empty]),
             Object([gas |-> Object([safe |-> JBool(FALSE)])]),
             Object([gas |-> Object([safe |-> JStr("no")])])}
        TimestampBodies == {JUndefined, JNum(0), JNum(5000)}
    IN  {JNull, JUndefined, JNum(7), JStr("ok"), JBool(TRUE), Empty}
            \cup {Object([timestamp |-> ts, respiration |-> r, audio |-> a,
                          environment |-> e]) :
                     ts \in TimestampBodies, r \in RespirationBodies,
                     a \in AudioBodies, e \in EnvironmentBodies}

InitNormalize ==
    /\ PollerInit /\ AlertsInit /\ StoreInit /\ TrendsInit /\ SessionInit
    /\ dbOpen = TRUE
    /\ payload \in Payloads
    /\ normalized = <<>>
    /\ lastReading = <<>> /\ pendingReadings = <<>>
    /\ dataEvents = 0 /\ storedLog = <<>> /\ checkedLog = <<>>

NextNormalize == NormalizeReading

SpecNormalize == InitNormalize /\ [][NextNormalize]_vars

\* the 'data' listener over a store that is open or failed to open
DataReadings ==
    {Reading(15, 400, 37, "supine", 0, TRUE, "quiet"),
     Reading(70, 400, 37, "supine", 0, TRUE, "quiet")}

NextPipeline ==
    \/ \E r \in DataReadings : DataEvent(r)
    \/ SaveReadingResolve
    \/ SaveReadingReject
    \/ Tick(1000)

SpecPipeline == InitAlerts /\ [][NextPipeline]_vars

\* the settings page: thresholds are set while saves settle and the page
\* is reloaded
\* parseInt of a text that does not start with a number
NaN == -3

ConfigureThreshold(sensor, min, max) ==
    /\ sets < MaxConfigs
    /\ setThresholdCall(sensor, min, max)
    /\ UNCHANGED <<pollerVars, storeVars, trendVars,
                   sessionVars, pipelineVars>>

NextThresholds ==
    \/ \E sn \in {"co2", "bodyTemp", "audio"}, mn \in {Undefined, 35},
          mx \in {Undefined, 40, 1200, NaN} : ConfigureThreshold(sn, mn, mx)
    \/ SaveSettingResolve
    \/ SaveSettingReject
    \/ \E open \in BOOLEAN : Restart(open)

SpecThresholds == InitAlerts /\ [][NextThresholds]_vars

\* ------------------------------------------------- poller: properties
Disconnects(evs) == SelectSeq(evs, LAMBDA e : e.type = "disconnected")
Errors(evs) == SelectSeq(evs, LAMBDA e : e.type = "error")

\* C1: at most one poll cycle is active at any time: in-flight fetches plus
\* pending poll timers never exceed one.
C1_AtMostOneCycle == Cardinality(timers(loop) \cup fetches(loop)) <= 1

\* C2: the completion of a fetch that was in flight when configure() was
\* called emits no event at all.
C2_OldFetchDiscarded == (lastOp \in {"ok", "fail"} /\ lastOld) => emitted = <<>>

\* C3: after stop(), until start() or configure() is called again, no step
\* arms a poll timer or issues a fetch.
C3_NoRearmAfterStop ==
    [][(stopped /\ stopped') =>
        (/\ timers(loop') \subseteq timers(loop)
         /\ fetches(loop') \subseteq fetches(loop))]_vars

\* C4: in a failure streak that follows a success, the first failure emits
\* exactly one disconnected event carrying that failure's message and no
\* later failure of the streak emits a disconnected event.
C4_OneDisconnectPerStreak ==
    lastOp = "fail" =>
        /\ (failStreak = 1 /\ hadOk) =>
              Disconnects(emitted) = <<[type |-> "disconnected", error |-> lastMsg]>>
        /\ failStreak > 1 => Disconnects(emitted) = <<>>

C4_Witness == lastOp = "fail" /\ hadOk /\ failStreak = 2 /\ ~isConnected

\* C5: every failed fetch adds one to the retry counter and emits exactly
\* one error event with the failure message and the new count, so the k-th
\* consecutive failure reports k; a success leaves the counter at 0.
C5_RetryCount ==
    /\ lastOp = "fail" =>
          /\ currentRetries = failStreak
          /\ Errors(emitted) =
                <<[type |-> "error", message |-> lastMsg, retries |-> failStreak]>>
    /\ lastOp = "ok" => currentRetries = 0

C5_Witness == lastOp = "fail" /\ hadOk /\ failStreak = 3 /\ currentRetries = 3

\* C6: the first successful fetch after start() or configure(), and the
\* first one after a failure streak, emits connected{current address} and
\* then data; every other successful fetch emits data only.
C6_ConnectedOnFirstSuccess ==
    [][lastOp' = "ok" =>
        emitted' = IF fresh
                   THEN <<[type |-> "connected", address |-> piAddress'],
                          [type |-> "data"]>>
                   ELSE <<[type |-> "data"]>>]_vars

\* C7: a failed poll never ends the loop: after every failed poll another
\* fetch is issued (by the re-armed timer, or by start()/configure()),
\* unless stop() has been called.
C7_LoopContinues ==
    (lastOp = "fail") ~> (lastOp \in {"fire", "start", "configure"} \/ stopped)

C7_Witness == lastOp = "fire" /\ failStreak >= 1 /\ ~stopped /\ ~isConnected

\* C34: whenever isConnected is true the retry counter is 0; the counter
\* is other than 0 only while the poller is disconnected.
C34_ConnectedMeansNoRetries == isConnected => currentRetries = 0

C34_Witness ==
    /\ lastOp = "ok" /\ isConnected /\ currentRetries = 0
    /\ Len(emitted) = 2 /\ emitted[1].type = "connected"

\* the connection state after the events evs, emitted in state c ("on":
\* the last of the connected and disconnected events was connected);
\* "bad" when a connected event comes in state "on", or a disconnected or
\* a data event in state "off"
RECURSIVE After(_, _)
After(evs, c) ==
    IF evs = <<>> \/ c = "bad" THEN c
    ELSE LET ty == Head(evs).type
         IN  After(Tail(evs),
                   IF ty = "connected" THEN (IF c = "off" THEN "on" ELSE "bad")
                   ELSE IF ty = "disconnected" THEN (IF c = "on" THEN "off" ELSE "bad")
                   ELSE IF ty = "data" THEN (IF c = "on" THEN "on" ELSE "bad")
                   ELSE c)

ConnState(conn) == IF conn THEN "on" ELSE "off"

\* C35: in a run of one poller, with configure, stop and start, connected
\* and disconnected events alternate strictly, beginning with connected,
\* and every data event comes after a connected event with no
\* disconnected event in between.  isConnected is false at first and
\* every step takes it to the state its events lead to.
C35_EventsAlternate ==
    [][After(emitted', ConnState(isConnected)) = ConnState(isConnected')]_vars

C35_Witness ==
    /\ lastOp = "fail" /\ hadOk /\ failStreak = 1
    /\ Disconnects(emitted) # <<>> /\ stopped

\* C39: disconnected and error events come from failed fetches only: a
\* successful fetch leads to no disconnected and no error event and does
\* not increment the retry counter, whatever the connected and data
\* listeners do, throwing included.
C39_SuccessNeverFails ==
    /\ [](lastOp = "ok" =>
            Disconnects(emitted) = <<>> /\ Errors(emitted) = <<>>)
    /\ [][lastOp' = "ok" => currentRetries' <= currentRetries]_vars

\* ------------------------------------------- alert engine: properties
CountKey(sq, k) == Cardinality({i \in 1..Len(sq) : sq[i].key = k})
Triggers(k) == Cardinality({i \in 1..Len(evalLog) :
                               evalLog[i].key = k /\ evalLog[i].triggered})

C9_EmittedDespiteSaveFailure ==
    \A i \in 1..Len(rejected) : InSeq(rejected[i], alertEvents)

Pairs(as) == {<<as[i].key, as[i].severity>> : i \in 1..Len(as)}

\* the conditions of the table of section 4.3, each taken on its own
TablePairs(rd, th) ==
    {p \in Keys \X {"WARNING", "CRITICAL"} :
        \/ p = <<"respiration_low", "CRITICAL">>
              /\ rd.respiration.value # Null
              /\ rd.respiration.value < th.respiration.min
        \/ p = <<"respiration_high", "WARNING">>
              /\ rd.respiration.value # Null
              /\ rd.respiration.value > th.respiration.max
        \/ p = <<"co2_high", "WARNING">>
              /\ rd.environment.co2.value # Null
              /\ rd.environment.co2.value > th.co2.max
        \/ p = <<"temp_low", "WARNING">>
              /\ rd.bodyTemp.value # Null
              /\ rd.bodyTemp.value < th.bodyTemp.min
        \/ p = <<"temp_high", "CRITICAL">>
              /\ rd.bodyTemp.value # Null
              /\ rd.bodyTemp.value > th.bodyTemp.max
        \/ p = <<"posture_prone", "WARNING">> /\ rd.posture.state = "prone"
        \/ p = <<"voc_high", "WARNING">>
              /\ rd.environment.voc.value # Null
              /\ rd.environment.voc.value > th.voc.max
        \/ p = <<"gas_unsafe", "CRITICAL">> /\ rd.environment.gas.safe = FALSE
        \/ p = <<"audio_choking", "CRITICAL">> /\ rd.audio.state = "choking"}

\* the same table with the low condition of a sensor taking precedence over
\* its high condition
TablePairsLowFirst(rd, th) ==
    TablePairs(rd, th) \
        ((IF <<"respiration_low", "CRITICAL">> \in TablePairs(rd, th)
          THEN {<<"respiration_high", "WARNING">>} ELSE {})
         \cup
         (IF <<"temp_low", "WARNING">> \in TablePairs(rd, th)
          THEN {<<"temp_high", "CRITICAL">>} ELSE {}))

\* scenario A: respiration 15 under {min 20, max 60} and no other violation
\* gives exactly one alert, CRITICAL, respiration_low
ScenarioA ==
    (/\ reading.respiration.value = 15
     /\ thresholds.respiration = [min |-> 20, max |-> 60]
     /\ TablePairs(reading, thresholds) \subseteq {<<"respiration_low", "CRITICAL">>})
    => /\ Len(alerts) = 1
       /\ alerts[1].key = "respiration_low" /\ alerts[1].severity = "CRITICAL"

NewEvals == {evalLog'[i] : i \in (Len(evalLog) + 1)..Len(evalLog')}

\* C13: an alert suppressed by the cooldown leaves the cooldown timestamp of
\* its key as it was, and nothing of that key is handed to the store or
\* emitted by the step; the store itself is not written.
C13_SuppressedNoEffect ==
    [][\A e \in NewEvals :
          ~e.triggered =>
              /\ lastAlerts'[e.key] = lastAlerts[e.key]
              /\ CountKey(pendingSaves', e.key) = CountKey(pendingSaves, e.key)
              /\ CountKey(alertEvents', e.key) = CountKey(alertEvents, e.key)
              /\ alertStore' = alertStore]_vars

C13_Witness ==
    /\ lastAlertOp = "check"
    /\ Len(evalLog) >= 2
    /\ ~evalLog[Len(evalLog)].triggered
    /\ evalLog[Len(evalLog)].time = now
    /\ lastAlerts[evalLog[Len(evalLog)].key] = now - alertCooldown

\* C14: the cooldown timestamp of a key changes only in a step that triggers
\* an alert of that very key, and becomes the time of that step; triggering
\* or suppressing another key leaves it as it was.
C14_PerKeyCooldown ==
    [][\A k \in Keys :
          lastAlerts'[k] # lastAlerts[k] =>
              /\ lastAlerts'[k] = now
              /\ \E e \in NewEvals : e.key = k /\ e.triggered]_vars

C14_Witness ==
    /\ lastAlertOp = "check"
    /\ lastAlerts["respiration_low"] = StartTime
    /\ lastAlerts["posture_prone"] = StartTime + 1
    /\ lastAlerts["gas_unsafe"] = StartTime + 1
    /\ lastAlerts["audio_choking"] = 0
    /\ \E i \in 1..Len(evalLog) :
          /\ evalLog[i].key = "respiration_low"
          /\ evalLog[i].time = StartTime + 1
          /\ ~evalLog[i].triggered

\* --------------------------------------------- thresholds: bounds and null
AlertKeys(as) == {as[i].key : i \in 1..Len(as)}

\* every threshold alert of the list stands for a strict violation
StrictOnly ==
    /\ "respiration_low" \in AlertKeys(alerts)
          => reading.respiration.value < thresholds.respiration.min
    /\ "respiration_high" \in AlertKeys(alerts)
          => reading.respiration.value > thresholds.respiration.max
    /\ "temp_low" \in AlertKeys(alerts)
          => reading.bodyTemp.value < thresholds.bodyTemp.min
    /\ "temp_high" \in AlertKeys(alerts)
          => reading.bodyTemp.value > thresholds.bodyTemp.max
    /\ "co2_high" \in AlertKeys(alerts)
          => reading.environment.co2.value > thresholds.co2.max
    /\ "voc_high" \in AlertKeys(alerts)
          => reading.environment.voc.value > thresholds.voc.max

SensorKeys(sensor) ==
    CASE sensor = "respiration" -> {"respiration_low", "respiration_high"}
      [] sensor = "bodyTemp" -> {"temp_low", "temp_high"}
      [] sensor = "co2" -> {"co2_high"}
      [] sensor = "voc" -> {"voc_high"}

SensorValue(rd, sensor) ==
    CASE sensor = "respiration" -> rd.respiration.value
      [] sensor = "bodyTemp" -> rd.bodyTemp.value
      [] sensor = "co2" -> rd.environment.co2.value
      [] sensor = "voc" -> rd.environment.voc.value

\* C12: a null value of respiration, co2, bodyTemp or voc gives no alert of
\* that sensor, and the alerts of the other conditions are those of the
\* table all the same.
C12_NullGivesNoAlert ==
    lastAlertOp = "check" =>
        \A sensor \in Sensors :
            SensorValue(reading, sensor) = Null =>
                /\ AlertKeys(alerts) \cap SensorKeys(sensor) = {}
                /\ {p \in Pairs(alerts) : p[1] \notin SensorKeys(sensor)} =
                   {p \in TablePairsLowFirst(reading, thresholds) :
                       p[1] \notin SensorKeys(sensor)}

C12_Witness ==
    /\ lastAlertOp = "check"
    /\ reading.respiration.value = Null
    /\ reading.environment.co2.value = Null
    /\ reading.bodyTemp.value = 39
    /\ AlertKeys(alerts) = {"temp_high", "posture_prone", "audio_choking"}

\* ------------------------------------------------------ store: properties
Ids(store) == {store[i].id : i \in 1..Len(store)}

\* C15: once maxReadings + k readings are inserted and every cleanup has
\* run, exactly maxReadings readings are stored and they are the ones
\* inserted last, whatever their timestamps.
C15_KeepsLastInserted ==
    (readingCleanups = 0 /\ nextReadingId - 1 >= maxReadings) =>
        /\ Len(readingStore) = maxReadings
        /\ Ids(readingStore) = (nextReadingId - maxReadings)..(nextReadingId - 1)

C15_Witness ==
    /\ readingCleanups = 0
    /\ nextReadingId - 1 = maxReadings + 2
    /\ Len(readingStore) = maxReadings
    /\ readingStore[1].timestamp > readingStore[Len(readingStore)].timestamp
    /\ \A i \in 1..Len(readingStore) : readingStore[i].timestamp >= 200

\* C17: getReadings(start, end) returns exactly the stored readings whose
\* timestamp lies in [start, end], and a saved reading leaves the store (and
\* so the results) only by eviction.
C17_InclusiveRange ==
    /\ [](lastStoreOp = "getReadings" =>
            /\ result.ok
            /\ Range(result.value) =
                  {r \in Range(readingStore) :
                      query[1] <= r.timestamp /\ r.timestamp <= query[2]}
            /\ Len(result.value) = Cardinality(Range(result.value)))
    /\ [][\A r \in Range(readingStore) :
              r \in Range(readingStore') \/ lastStoreOp' = "cleanupReadings"]_vars

C17_Witness ==
    /\ lastStoreOp = "getReadings"
    /\ query = <<100, 200>>
    /\ Len(result.value) = 2
    /\ result.value[1].timestamp = 100 /\ result.value[2].timestamp = 200
    /\ Len(readingStore) = 3
\* C16: once more than maxAlerts alerts are inserted and every cleanup has
\* run, the alerts stored are the ones inserted last (highest ids), whatever
\* their timestamps.
C16_AlertsKeepLastInserted ==
    (cleanups = 0 /\ nextAlertId - 1 >= maxAlerts) =>
        /\ Len(alertStore) = maxAlerts
        /\ Ids(alertStore) = (nextAlertId - maxAlerts)..(nextAlertId - 1)

\* C18: getAlerts() returns every stored alert, getAlerts(b) returns the
\* stored alerts whose acknowledged flag is b, and the result is ordered by
\* timestamp descending.
C18_FilterAndOrder ==
    lastStoreOp = "getAlerts" =>
        /\ result.ok
        /\ Range(result.value) =
              {a \in Range(alertStore) :
                  \/ query[1] = "null"
                  \/ query[1] = "true" /\ a.acknowledged
                  \/ query[1] = "false" /\ ~a.acknowledged}
        /\ Len(result.value) = Cardinality(Range(result.value))
        /\ \A i \in 1..Len(result.value), j \in 1..Len(result.value) :
              i < j => result.value[i].timestamp >= result.value[j].timestamp

\* C19: acknowledgeAlert(id) of an id not in the store resolves false and
\* leaves the store as it was; of a stored id it resolves true and sets the
\* acknowledged flag of that alert, and changes nothing else.
C19_Acknowledge ==
    [][lastStoreOp' = "acknowledgeAlert" =>
          /\ result'.ok
          /\ Len(alertStore') = Len(alertStore)
          /\ IF query'[1] \in Ids(alertStore)
             THEN /\ result'.value = TRUE
                  /\ \A i \in 1..Len(alertStore) :
                        alertStore'[i] =
                            IF alertStore[i].id = query'[1]
                            THEN [alertStore[i] EXCEPT !.acknowledged = TRUE]
                            ELSE alertStore[i]
             ELSE /\ result'.value = FALSE
                  /\ alertStore' = alertStore]_vars

C19_Witness ==
    /\ lastStoreOp = "acknowledgeAlert"
    /\ result.value = TRUE
    /\ Len(alertStore) = 2
    /\ alertStore[1].id = query[1] /\ alertStore[1].acknowledged
    /\ ~alertStore[2].acknowledged
\* --------------------------------------------------- page load: properties
\* C20: a page reload leaves the readings, the alerts and the saved setting
\* of the object stores as they were, and the reads of the new page return
\* them (the thresholds loaded are the saved ones); the cooldown timestamps
\* and the chart cache of the new page are empty, so the first alert of a
\* key after the reload is triggered and the first chart request of a key
\* is not answered from the cache.
C20_DurableStoreFreshMemory ==
    /\ [][session' # session =>
            /\ alertStore' = alertStore
            /\ readingStore' = readingStore
            /\ savedThresholds' = savedThresholds
            /\ (dbOpen' /\ savedThresholds # <<>>) => thresholds' = savedThresholds[1]
            /\ lastAlerts' = [k \in Keys |-> 0]
            /\ DOMAIN cachedData' = {}]_vars
    /\ [](lastStoreOp = "getAlerts" => Range(result.value) = Range(alertStore))
    /\ [](lastStoreOp = "getReadings" => Range(result.value) = Range(readingStore))
    /\ [](\A i \in (sessionStart + 1)..Len(evalLog) :
             evalLog[i].triggered
             \/ \E j \in (sessionStart + 1)..(i - 1) :
                   evalLog[j].key = evalLog[i].key /\ evalLog[j].triggered)
    /\ [](\A i \in 1..Len(served) :
             served[i].cached =>
                 \E j \in 1..(i - 1) :
                     /\ served[j].key = served[i].key
                     /\ served[j].session = served[i].session
                     /\ ~served[j].cached)

C20_Witness ==
    /\ session = 1 /\ dbOpen
    /\ sessionStart = 2 /\ Len(evalLog) = 3
    /\ evalLog[1].triggered /\ ~evalLog[2].triggered /\ evalLog[3].triggered
    /\ evalLog[3].time - evalLog[1].time <= alertCooldown
    /\ thresholds.bodyTemp.min = 35
    /\ Len(alertStore) = 2
    /\ Len(readingStore) = 1
    /\ lastStoreOp = "getReadings" /\ Len(result.value) = 1
    /\ Len(served) = 2
    /\ served[1].session = 0 /\ ~served[1].cached
    /\ served[2].session = 1 /\ ~served[2].cached
    /\ served[2].key = served[1].key
    /\ served[2].time - served[1].time < cacheExpiry
    /\ chartResult.stats.count = 1
\* ------------------------------------------------- aggregator: properties
\* a call that computed a result and put it in the cache
Computed(e) == ~e.cached /\ "isEmpty" \notin DOMAIN e.value

SameKey(i, j) ==
    served[i].key = served[j].key /\ served[i].session = served[j].session

\* C21 as stated: a call made within the TTL of the previous call for its
\* key returns what that previous call returned.
C21_SameWithinTTL ==
    \A i \in 1..Len(served), j \in 1..Len(served) :
        (/\ i < j /\ SameKey(i, j)
         /\ \A k \in (i + 1)..(j - 1) : ~SameKey(i, k)
         /\ served[j].after >= i
         /\ served[j].called - served[i].called < cacheExpiry)
        => served[j].value = served[i].value

\* C21 amended: a call made less than the TTL after the call that computed
\* the cached entry of its key, once that call has returned, is answered
\* from the cache with the object that call returned, whatever was written
\* to the store since.
C21_CachedWithinTTL ==
    \A i \in 1..Len(served), j \in 1..Len(served) :
        (/\ i < j /\ SameKey(i, j)
         /\ Computed(served[i])
         /\ \A k \in (i + 1)..(j - 1) : ~(SameKey(i, k) /\ Computed(served[k]))
         /\ served[j].after >= i
         /\ served[j].called - served[i].called < cacheExpiry)
        => /\ served[j].cached
           /\ served[j].value = served[i].value

C21_Witness ==
    /\ Len(served) = 2
    /\ Computed(served[1]) /\ served[2].cached
    /\ served[2].called - served[1].called = 50000
    /\ served[2].value.stats.count = 1
    /\ Len(readingStore) = 2
    /\ readingStore[2].reading.respiration.value = 41
    /\ readingStore[2].timestamp < served[2].called
\* the call answered j-th was made when the entry of its key, computed by an
\* earlier call, was of the age of the TTL or older
Expired(j) ==
    \E i \in 1..served[j].after :
        /\ SameKey(i, j) /\ Computed(served[i])
        /\ \A k \in (i + 1)..served[j].after :
              ~(SameKey(i, k) /\ Computed(served[k]))
        /\ served[j].called - served[i].called >= cacheExpiry

\* the timestamps of the stored readings in the window of the call answered
\* j-th that carry a value for its sensor
WindowStamps(j) ==
    {r.timestamp : r \in
        {x \in Range(readingStore) :
            /\ served[j].called - hours(served[j].key[2]) * HourMs <= x.timestamp
            /\ x.timestamp <= served[j].called
            /\ sensorValue(x, served[j].key[1]) # Null}}

\* the call answered last was not answered from the cache, its result is that
\* of the store, and the cache holds it under the time of the call
RecomputedAndStamped ==
    LET j == Len(served) IN
    Expired(j) =>
        /\ ~served[j].cached
        /\ Range(served[j].value.timestamps) = WindowStamps(j)
        /\ cachedData[served[j].key] = served[j].value
        /\ lastCacheTime[served[j].key] = served[j].called

\* the same, the cache being written only for a window that holds readings
RecomputedAndStampedIfAny ==
    LET j == Len(served) IN
    Expired(j) =>
        /\ ~served[j].cached
        /\ Range(served[j].value.timestamps) = WindowStamps(j)
        /\ IF "isEmpty" \in DOMAIN served[j].value
           THEN served[j].value = getEmptyData
           ELSE /\ cachedData[served[j].key] = served[j].value
                /\ lastCacheTime[served[j].key] = served[j].called

\* C22 as stated: a call made once the TTL has elapsed since the entry of its
\* key was computed is not answered from the cache; it queries the store,
\* returns the result computed from it and stamps the cache anew.
C22_RecomputedAfterTTL ==
    [][Len(served') > Len(served) => RecomputedAndStamped']_vars

\* C22 amended: such a call is not answered from the cache and returns the
\* result computed from the store; the cache is written and stamped anew when
\* the window holds a reading, and left as it was (expired) when it holds
\* none.
C22_RecomputedStampedIfAny ==
    [][Len(served') > Len(served) =>
          /\ RecomputedAndStampedIfAny'
          /\ "isEmpty" \in DOMAIN served'[Len(served')].value
                => UNCHANGED <<cachedData, lastCacheTime>>]_vars

C22_Witness ==
    /\ Len(served) = 2
    /\ Computed(served[1]) /\ Computed(served[2])
    /\ served[2].after = 1
    /\ served[2].called - served[1].called = cacheExpiry
    /\ served[2].value = served[1].value
    /\ lastCacheTime[served[2].key] = served[2].called
    /\ Len(readingStore) = 1
\* C23: a result whose series holds no value has min, max and avg null, a
\* count of 0 and isEmpty = true, be it that the window holds no reading or
\* that no reading of the window carries a value for the sensor.
C23_EmptyResult ==
    \A i \in 1..Len(served) :
        served[i].value.values = <<>> =>
            /\ served[i].value.stats =
                  [min |-> Null, max |-> Null, avg |-> Null, count |-> 0]
            /\ "isEmpty" \in DOMAIN served[i].value
            /\ served[i].value.isEmpty

\* the values of the series a chart was computed from: those of the stored
\* readings that carry one
SeriesValues ==
    SelectSeq([i \in 1..Len(readingStore) |->
                  readingStore[i].reading.respiration.value],
              LAMBDA v : v # Null)

\* Math.ceil(n / m) of positive integers
Ceil(n, m) == CHOOSE c \in 0..n : c * m >= n /\ (c - 1) * m < n

\* C24: downsample(data, maxPoints) returns data as it is when the series
\* has at most maxPoints entries; otherwise it returns the entries at the
\* indices 0, s, 2s, ... with s = ceil(n / maxPoints), at most maxPoints of
\* them and in their order, points, values and timestamps being taken at
\* the same indices.
C24_Downsample ==
    displayData # <<>> =>
        LET n == Len(chartResult.points)
            m == displayData.maxPoints
            r == displayData.value
        IN  IF n <= m
            THEN r = chartResult
            ELSE LET st == Ceil(n, m)
                     k == Ceil(n, st)
                 IN  /\ Len(r.points) = k /\ k <= m
                     /\ Len(r.values) = k /\ Len(r.timestamps) = k
                     /\ \A j \in 1..k :
                           /\ r.points[j] = chartResult.points[(j - 1) * st + 1]
                           /\ r.values[j] = chartResult.values[(j - 1) * st + 1]
                           /\ r.timestamps[j] = chartResult.timestamps[(j - 1) * st + 1]
                           /\ r.points[j] = [x |-> r.timestamps[j], y |-> r.values[j]]

C24_Witness ==
    /\ displayData # <<>>
    /\ Len(chartResult.points) = 5
    /\ displayData.maxPoints = 3
    /\ displayData.value.values = <<30, 30, 41>>
    /\ displayData.value.timestamps = <<100, 300, 500>>

\* C25: the stats of a chart result are those of the whole series: count is
\* the number of readings of the window that carry a value for the sensor,
\* min, max and avg (to two decimal places) are taken over all of them; and
\* downsample leaves the stats and the cached series as they were.
C25_StatsOfFullSeries ==
    chartResult # <<>> =>
        /\ chartResult.values = SeriesValues
        /\ chartResult.stats.count = Len(SeriesValues)
        /\ SeriesValues # <<>> =>
              /\ \E v \in Range(SeriesValues) :
                    /\ chartResult.stats.min = 100 * v
                    /\ \A w \in Range(SeriesValues) : v <= w
              /\ \E v \in Range(SeriesValues) :
                    /\ chartResult.stats.max = 100 * v
                    /\ \A w \in Range(SeriesValues) : v >= w
              /\ 2 * Len(SeriesValues) * chartResult.stats.avg
                    - 200 * reduceSum(SeriesValues) <= Len(SeriesValues)
              /\ 2 * Len(SeriesValues) * chartResult.stats.avg
                    - 200 * reduceSum(SeriesValues) > - Len(SeriesValues)
        /\ displayData # <<>> =>
              /\ displayData.value.stats = chartResult.stats
              /\ readingStore # <<>> =>
                    cachedData[<<"respiration", "1h">>] = chartResult

C25_Witness ==
    /\ displayData # <<>>
    /\ Len(readingStore) = 5
    /\ chartResult.stats = [min |-> 3000, max |-> 4100, avg |-> 3367, count |-> 3]
    /\ Len(displayData.value.values) = 2
\* ---------------------------------------------- normalizer: properties
\* C26: normalizeReading never raises, whatever the raw payload (null, not
\* an object, fields absent or of the wrong type), and always returns a
\* Reading.
C26_NeverRaises == normalized # <<>> => normalized.ok

Finite(v) == v.t = "number" /\ "n" \in DOMAIN v

RECURSIVE NoUndefined(_)
NoUndefined(x) ==
    IF "t" \in DOMAIN x THEN x # JUndefined
    ELSE \A name \in DOMAIN x : NoUndefined(x[name])

\* C27: a Reading returned by normalizeReading has no undefined field; its
\* numeric value fields are a finite number or null, a missing state is
\* 'unknown' and gas.safe is a boolean, true by default; also when the
\* payload gives bare numbers, objects without a value field or values of
\* the wrong type.
C27_WellTyped ==
    (normalized # <<>> /\ normalized.ok) =>
        LET rd == normalized.value
        IN  /\ NoUndefined(rd)
            /\ \A v \in {rd.respiration.value, rd.bodyTemp.value,
                         rd.environment.temp.value, rd.environment.co2.value,
                         rd.environment.voc.value} :
                  v = JNull \/ Finite(v)
            /\ optProp(optProp(payload, "audio"), "state") \in {JUndefined, JNull}
                  => rd.audio.state = JStr("unknown")
            /\ optProp(optProp(payload, "posture"), "state") \in {JUndefined, JNull}
                  => rd.posture.state = JStr("unknown")
            /\ rd.environment.gas.safe.t = "boolean"
            /\ optProp(payload, "environment") \in {JUndefined, JNull}
                  => rd.environment.gas.safe = JBool(TRUE)
\* ------------------------------------------- data listener: properties
\* C28: of two 'data' events the reading of the first is stored before the
\* reading of the second and is passed to checkReading before it, also when
\* the save of the first is still pending when the second arrives.
C28_InOrder ==
    /\ \A i, j \in 1..Len(checkedLog) :
          i < j => checkedLog[i].seq < checkedLog[j].seq
    /\ \A i, j \in 1..Len(storedLog) :
          i < j => /\ storedLog[i].seq < storedLog[j].seq
                   /\ storedLog[i].id < storedLog[j].id
    /\ \A i \in 1..Len(readingStore) : \A j \in 1..Len(storedLog) :
          readingStore[i].id = storedLog[j].id =>
              \E k \in 1..Len(checkedLog) :
                  /\ checkedLog[k].seq = storedLog[j].seq
                  /\ checkedLog[k].reading = readingStore[i].reading

C28_Witness ==
    /\ Len(checkedLog) >= 2 /\ Len(storedLog) >= 2
    /\ checkedLog[2].behind = 1
    /\ storedLog[1].seq = 1 /\ storedLog[2].seq = 2
    /\ checkedLog[1].reading # checkedLog[2].reading
\* ------------------------------------------------ settings: properties
\* C29: setThreshold never corrupts the thresholds in memory: a call with a
\* malformed bound (NaN, not a number) is rejected and leaves the
\* thresholds of the sensor as they were, so that every min and max in
\* memory is a valid number in every reachable state.
C29_NeverCorrupted ==
    \A sn \in DOMAIN thresholds :
        thresholds[sn].min # NaN /\ thresholds[sn].max # NaN

\* a setThreshold call that changed a threshold has completed in this step:
\* its saveSetting request succeeded, or there is no store to save to
SetCompleted ==
    \/ /\ lastAlertOp' = "settingSaved"
       /\ Len(pendingSettings') < Len(pendingSettings)
    \/ /\ lastAlertOp' = "set" /\ ~dbOpen
       /\ thresholds' # thresholds

\* C30: after every completed setThreshold call that changes a threshold
\* the persisted 'thresholds' setting equals the thresholds in memory, so
\* that loadThresholds at the next startup restores the thresholds
\* configured last.
C30_PersistedEqualsMemory ==
    [][SetCompleted => savedThresholds' = <<thresholds'>>]_vars

\* C30 as the code has it: when the save of a setThreshold call succeeds
\* and no later call is waiting for its save, the persisted setting equals
\* the thresholds in memory; a page load that opens the store at such a
\* time restores those thresholds; a call made with no store open changes
\* the thresholds in memory and persists nothing.
C30_PersistedWhenSettled ==
    /\ [][(/\ lastAlertOp' = "settingSaved"
           /\ pendingSettings # <<>> /\ pendingSettings' = <<>>)
             => savedThresholds' = <<thresholds'>>]_vars
    /\ [][(/\ session' = session + 1 /\ dbOpen'
           /\ savedThresholds = <<thresholds>>)
             => thresholds' = thresholds]_vars
    /\ [][(lastAlertOp' = "set" /\ ~dbOpen)
             => UNCHANGED <<savedThresholds, pendingSettings>>]_vars

C30_Witness ==
    /\ session = 1 /\ dbOpen /\ sets = 2
    /\ savedThresholds = <<thresholds>>
    /\ thresholds # DefaultThresholds
    /\ thresholds.co2.max = 1200 /\ thresholds.bodyTemp.min = 35
\* ------------------------------------------- retention: properties
\* C32: whenever a saveReading call has resolved, at most maxReadings
\* readings are stored: the eviction is complete when the caller sees the
\* save as finished, and no reader sees more than maxReadings readings.
C32_AtMostCeiling ==
    /\ Len(readingStore) <= maxReadings
    /\ lastStoreOp = "getReadings" => Len(result.value) <= maxReadings

\* C32 as the code has it: saveReading resolves before the
\* cleanupOldReadings() it calls has run, so that the store holds at most
\* maxReadings readings plus one for every cleanup not yet run; each run
\* of a cleanup leaves at most maxReadings readings, and a reader served
\* before the cleanups sees what is stored then.
C32_CeilingAfterCleanup ==
    /\ [](Len(readingStore) <= maxReadings + readingCleanups)
    /\ [][lastStoreOp' = "cleanupReadings"
            => Len(readingStore') <= maxReadings]_vars
    /\ [](lastStoreOp = "getReadings" =>
            Len(result.value) <= maxReadings + readingCleanups)

C32_Witness ==
    /\ lastStoreOp = "cleanupReadings"
    /\ Len(readingStore) = maxReadings
    /\ readingCleanups = 1
    /\ saves = maxReadings + 2
\* --------------------------------------------- ingestion: properties
\* the step is the resumption of a 'data' listener whose saveReading
\* rejected, or a 'data' event handled with no store open
SaveFailed ==
    \/ /\ Len(pendingReadings') < Len(pendingReadings)
       /\ storedLog' = storedLog
    \/ dataEvents' > dataEvents /\ ~dbOpen

\* C33: a failure to save a reading is best effort on the ingestion path:
\* when saveReading(r) rejects, or the store was never opened,
\* checkReading(r) is still called for that reading, and the poll loop is
\* as it was.
C33_CheckedDespiteSaveFailure ==
    [][SaveFailed =>
        /\ Len(checkedLog') = Len(checkedLog) + 1
        /\ reading' = checkedLog'[Len(checkedLog')].reading
        /\ checkedLog'[Len(checkedLog')].reading =
              (IF dbOpen THEN Head(pendingReadings).reading ELSE lastReading')
        /\ checks' = checks + 1
        /\ lastAlertOp' = "check"
        /\ UNCHANGED pollerVars]_vars

C33_Witness ==
    /\ dbOpen /\ storedLog = <<>> /\ Len(checkedLog) = 2
    /\ pendingReadings = <<>>
    /\ lastAlertOp = "check" /\ alerts # <<>>

\* ------------------------------------------ cooldown: properties
\* the evaluations of evalLog that triggered an alert of the key of j
\* before j
EarlierTriggers(j) ==
    {i \in 1..(j - 1) : evalLog[i].key = evalLog[j].key /\ evalLog[i].triggered}

\* C36: two triggered alerts of one key were evaluated strictly more than
\* alertCooldown apart; a condition evaluated exactly alertCooldown after
\* its last trigger is suppressed; and so it is when the second
\* checkReading runs while the save of the first alert is pending.
C36_StrictlyMoreThanCooldown ==
    \A j \in 1..Len(evalLog) :
        /\ evalLog[j].triggered =>
              \A i \in EarlierTriggers(j) :
                  evalLog[j].time - evalLog[i].time > alertCooldown
        /\ (\E i \in EarlierTriggers(j) :
               evalLog[j].time - evalLog[i].time = alertCooldown)
              => ~evalLog[j].triggered

C36_Witness ==
    /\ dbOpen /\ Len(evalLog) = 2
    /\ evalLog[1].key = evalLog[2].key
    /\ evalLog[1].triggered /\ ~evalLog[2].triggered
    /\ evalLog[2].time - evalLog[1].time = alertCooldown
    /\ Len(pendingSaves) = 1 /\ alertStore = <<>>

\* the record of the alerts store made from the alert a
Stored(a, store) ==
    \E i \in 1..Len(store) :
        /\ store[i].key = a.key /\ store[i].timestamp = a.timestamp
        /\ store[i].severity = a.severity /\ store[i].title = a.title

C40_ListIgnoresCooldown ==
    [][checks' > checks =>
        /\ Pairs(alerts') = TablePairsLowFirst(reading', thresholds')
        /\ Len(evalLog') = Len(evalLog) + Len(alerts')
        /\ \A i \in 1..Len(alerts') :
              alerts'[i].key = evalLog'[Len(evalLog) + i].key]_vars

C40_Witness ==
    /\ lastAlertOp = "check" /\ checks = 2
    /\ Len(alerts) = 3 /\ Len(evalLog) = 6
    /\ \A i \in 4..6 : ~evalLog[i].triggered

SameId(a, store) == {j \in 1..Len(store) : store[j].id = a.id}

\* one step of the alerts store, record by record: a record that stays
\* keeps its fields and its flag goes from false to true only, by
\* acknowledgeAlert; a record goes only by clearAlerts or by a cleanup over
\* a store above its ceiling; a record comes only by saveAlert, as the record
\* of the alert saved, not acknowledged
RecordLifecycle ==
    /\ \A i \in 1..Len(alertStore) :
          LET a == alertStore[i]
          IN  IF SameId(a, alertStore') = {}
              THEN \/ lastAlertOp' = "clear"
                   \/ lastAlertOp' = "cleanup" /\ Len(alertStore) > maxAlerts
              ELSE \A j \in SameId(a, alertStore') :
                      LET b == alertStore'[j]
                      IN  /\ b.severity = a.severity /\ b.title = a.title
                          /\ b.description = a.description /\ b.key = a.key
                          /\ b.timestamp = a.timestamp
                          /\ b.acknowledged # a.acknowledged =>
                                /\ ~a.acknowledged /\ b.acknowledged
                                /\ lastAlertOp' = "acknowledge"
    /\ \A j \in 1..Len(alertStore') :
          SameId(alertStore'[j], alertStore) = {} =>
              /\ lastAlertOp' = "saved"
              /\ pendingSaves # <<>>
              /\ alertStore'[j] = alertRecord(Head(pendingSaves), nextAlertId, now)
              /\ ~alertStore'[j].acknowledged

\* the evaluations that triggered an alert
TriggerCount == Cardinality({i \in 1..Len(evalLog) : evalLog[i].triggered})

\* C31 as stated: each triggered alert is persisted exactly once with
\* acknowledged = false, its fields never change, its flag changes only
\* from false to true by acknowledgeAlert, and it is removed only by
\* clearAlerts or by the eviction at the ceiling.
C31_PersistedExactlyOnce ==
    /\ [](pendingSaves = <<>> => nextAlertId - 1 = TriggerCount)
    /\ [][RecordLifecycle]_vars

\* C31: each triggered alert is persisted at most once, and exactly once
\* when the store is open and its saveAlert succeeds (it is not persisted
\* when the store is not open or the save rejects); a persisted record
\* starts with acknowledged = false, keeps its severity, title,
\* description, key and timestamp, has its flag changed only from false to
\* true by acknowledgeAlert, and is removed only by clearAlerts or by the
\* eviction at the ceiling.
C31_PersistedAtMostOnce ==
    /\ [](\A i, j \in 1..Len(alertStore) :
             (/\ alertStore[i].key = alertStore[j].key
              /\ alertStore[i].timestamp = alertStore[j].timestamp) => i = j)
    /\ [](IF dbOpen
          THEN nextAlertId - 1 + Len(pendingSaves) + Len(rejected) = TriggerCount
          ELSE nextAlertId = 1 /\ alertStore = <<>>)
    /\ [][RecordLifecycle]_vars

C31_Witness ==
    /\ lastAlertOp = "acknowledge"
    /\ nextAlertId = 4 /\ Len(alertStore) = 2
    /\ alertStore[1].acknowledged /\ ~alertStore[2].acknowledged
    /\ rejected # <<>> /\ pendingSaves = <<>>
====
